---- MODULE Spec2Model ----
(***************************************************************************)
(* Model of the streaming chat client of ragora-node: RagoraClient.        *)
(* chatStream (the SSE framer), parseEvent (the event interpreter), the    *)
(* source coercions and handleError.                                       *)
(*                                                                         *)
(* Text is a sequence of Unicode code points, the transport carries        *)
(* sequences of bytes (0..255).  String literals are turned into code      *)
(* points by S().                                                          *)
(***************************************************************************)
EXTENDS Integers, Sequences, FiniteSets, TLC

\* ------------------------------------------------------------------------
\* Characters and JavaScript string primitives
\* ------------------------------------------------------------------------

\* code points 32..95 and 97..126 (96, the backtick, is never written)
AsciiLow == " !\"#$%&'()*+,-./0123456789:;<=>?@ABCDEFGHIJKLMNOPQRSTUVWXYZ[\\]^_"
AsciiHigh == "abcdefghijklmnopqrstuvwxyz{|}~"

Ord(c) ==
  IF \E i \in 1..Len(AsciiLow) : SubSeq(AsciiLow, i, i) = c
  THEN 31 + (CHOOSE i \in 1..Len(AsciiLow) : SubSeq(AsciiLow, i, i) = c)
  ELSE 96 + (CHOOSE i \in 1..Len(AsciiHigh) : SubSeq(AsciiHigh, i, i) = c)

\* the code points of a string literal
S(str) == [i \in 1..Len(str) |-> Ord(SubSeq(str, i, i))]

\* property names and fixed texts of the source
K_score == S("score")
K_metadata == S("metadata")
K_id == S("id")
K_chunk_id == S("chunk_id")
K_text == S("text")
K_content == S("content")
K_document_id == S("document_id")
K_collection_id == S("collection_id")
K_ragora_stats == S("ragora_stats")
K_sources == S("sources")
K_choices == S("choices")
K_delta == S("delta")
K_finish_reason == S("finish_reason")
K_error == S("error")
K_message == S("message")
EvMetadata == S("ragora_metadata")
EvComplete == S("ragora_complete")
TxtTrue == S("true")
TxtFalse == S("false")
TxtNull == S("null")
TxtUndefined == S("undefined")
TxtInfinity == S("Infinity")
TxtUnknownError == S("Unknown error")
TxtObject == S("[object Object]")
TxtHttp == S("HTTP ")

LF == 10
CR == 13
BOM == 65279
REPLACEMENT == 65533

\* ECMAScript WhiteSpace and LineTerminator code points (String.prototype.trim)
IsWhiteSpace(c) ==
  \/ c \in {9, 10, 11, 12, 13, 32, 160, 5760, 8232, 8233, 8239, 8287, 12288, 65279}
  \/ c \in 8192..8202

RECURSIVE trimEnd(_)
trimEnd(s) ==
  IF s = <<>> THEN <<>>
  ELSE IF IsWhiteSpace(s[Len(s)]) THEN trimEnd(SubSeq(s, 1, Len(s) - 1))
  ELSE s

RECURSIVE trimStart(_)
trimStart(s) ==
  IF s = <<>> THEN <<>>
  ELSE IF IsWhiteSpace(s[1]) THEN trimStart(Tail(s))
  ELSE s

trim(s) == trimEnd(trimStart(s))

startsWith(s, p) == Len(s) >= Len(p) /\ SubSeq(s, 1, Len(p)) = p

\* s.slice(n) for 0 <= n
slice(s, n) == SubSeq(s, n + 1, Len(s))

\* the pieces of two adjacent texts: the piece that ends the left text
\* continues with the first piece of the right text
Glue(a, b) == SubSeq(a, 1, Len(a) - 1) \o << a[Len(a)] \o b[1] >> \o Tail(b)

\* s.split('\n'): always at least one element.  The text is split by halves.
RECURSIVE split(_)
split(s) ==
  IF Len(s) = 0 THEN << <<>> >>
  ELSE IF Len(s) = 1 THEN (IF s[1] = LF THEN << <<>>, <<>> >> ELSE <<s>>)
  ELSE Glue(split(SubSeq(s, 1, Len(s) \div 2)), split(SubSeq(s, Len(s) \div 2 + 1, Len(s))))

\* lines.join('\n')
RECURSIVE join(_)
join(lines) ==
  IF lines = <<>> THEN <<>>
  ELSE IF Len(lines) = 1 THEN lines[1]
  ELSE lines[1] \o <<LF>> \o join(Tail(lines))

\* ------------------------------------------------------------------------
\* TextDecoder('utf-8'), streaming (WHATWG Encoding, UTF-8 decoder)
\* ------------------------------------------------------------------------

\* new TextDecoder(): no pending bytes, byte-order mark not yet seen
NewDecoder ==
  [cp |-> 0, seen |-> 0, needed |-> 0, lower |-> 128, upper |-> 191, bomSeen |-> FALSE]

ResetSeq(d) == [d EXCEPT !.cp = 0, !.seen = 0, !.needed = 0, !.lower = 128, !.upper = 191]

\* a decoded code point reaches the output, except a leading byte-order mark
Emit(r, c) ==
  IF ~r.d.bomSeen /\ c = BOM THEN [r EXCEPT !.d.bomSeen = TRUE]
  ELSE [d |-> [r.d EXCEPT !.bomSeen = TRUE], text |-> Append(r.text, c)]

\* one byte through the decoder; r = [d |-> decoder state, text |-> output so far]
RECURSIVE DecodeByte(_, _)
DecodeByte(r, b) ==
  LET d == r.d IN
  IF d.needed = 0 THEN
    IF b <= 127 THEN Emit(r, b)
    ELSE IF b \in 194..223 THEN [r EXCEPT !.d.needed = 1, !.d.cp = b - 192]
    ELSE IF b \in 224..239 THEN
      [r EXCEPT !.d.needed = 2, !.d.cp = b - 224,
                !.d.lower = IF b = 224 THEN 160 ELSE 128,
                !.d.upper = IF b = 237 THEN 159 ELSE 191]
    ELSE IF b \in 240..244 THEN
      [r EXCEPT !.d.needed = 3, !.d.cp = b - 240,
                !.d.lower = IF b = 240 THEN 144 ELSE 128,
                !.d.upper = IF b = 244 THEN 143 ELSE 191]
    ELSE Emit(r, REPLACEMENT)
  ELSE IF b \notin d.lower..d.upper THEN
    \* the byte is put back and decoded again after the replacement character
    DecodeByte(Emit([r EXCEPT !.d = ResetSeq(d)], REPLACEMENT), b)
  ELSE
    LET cp == d.cp * 64 + (b % 64) IN
    IF d.seen + 1 = d.needed
    THEN Emit([r EXCEPT !.d = ResetSeq(d)], cp)
    ELSE [r EXCEPT !.d.cp = cp, !.d.seen = d.seen + 1, !.d.lower = 128, !.d.upper = 191]

\* the bytes in order, first half then second half
RECURSIVE DecodeBytes(_, _)
RECURSIVE DecodeRest(_, _)
DecodeBytes(r, bytes) ==
  IF Len(bytes) = 0 THEN r
  ELSE IF Len(bytes) = 1 THEN DecodeByte(r, bytes[1])
  ELSE DecodeRest(DecodeBytes(r, SubSeq(bytes, 1, Len(bytes) \div 2)),
                  SubSeq(bytes, Len(bytes) \div 2 + 1, Len(bytes)))

\* the left half has been decoded before the right half is started
DecodeRest(left, bytes) ==
  IF left.d.needed >= 0 THEN DecodeBytes(left, bytes) ELSE left

\* decoder.decode(value): end of input after the chunk, a pending sequence
\* becomes a replacement character and the decoder starts afresh
decodeFlush(d, bytes) ==
  LET r == DecodeBytes([d |-> d, text |-> <<>>], bytes) IN
  IF r.d.needed # 0
  THEN [d |-> NewDecoder, text |-> Emit([r EXCEPT !.d = ResetSeq(r.d)], REPLACEMENT).text]
  ELSE [d |-> NewDecoder, text |-> r.text]

\* decoder.decode(value, { stream: true }): pending bytes are kept
decode(d, bytes) == DecodeBytes([d |-> d, text |-> <<>>], bytes)

\* ------------------------------------------------------------------------
\* JSON.parse (ECMA-404 grammar; \u escapes and exponents are not modelled)
\* A value is [t |-> tag, v |-> ...]: "null" 0, "bool" BOOLEAN, "str" text,
\* "num" [m |-> mantissa, e |-> fraction digits], "arr" sequence of values,
\* "obj" sequence of [k |-> text, val |-> value] in source order.
\* ------------------------------------------------------------------------

JNull == [t |-> "null", v |-> 0]
JBool(b) == [t |-> "bool", v |-> b]
JStr(x) == [t |-> "str", v |-> x]
JNum(m, e) == [t |-> "num", v |-> [m |-> m, e |-> e]]
JArr(xs) == [t |-> "arr", v |-> xs]
JObj(ms) == [t |-> "obj", v |-> ms]
EmptyObj == JObj(<<>>)

ParseFail == [ok |-> FALSE, v |-> JNull, i |-> 0]
ParseOk(v, i) == [ok |-> TRUE, v |-> v, i |-> i]

IsDigit(c) == c \in 48..57

RECURSIVE SkipWs(_, _)
SkipWs(s, i) ==
  IF i <= Len(s) /\ s[i] \in {9, 10, 13, 32} THEN SkipWs(s, i + 1) ELSE i

\* the index after the run of digits that starts at i
RECURSIVE DigitsEnd(_, _)
DigitsEnd(s, i) ==
  IF i <= Len(s) /\ IsDigit(s[i]) THEN DigitsEnd(s, i + 1) ELSE i

RECURSIVE DigitsValue(_, _, _, _)
DigitsValue(s, i, j, acc) ==
  IF i >= j THEN acc ELSE DigitsValue(s, i + 1, j, acc * 10 + (s[i] - 48))

\* a number is kept as mantissa / 10^e without trailing fraction zeros
RECURSIVE Normalize(_, _)
Normalize(m, e) ==
  IF e > 0 /\ m % 10 = 0 THEN Normalize(m \div 10, e - 1) ELSE [m |-> m, e |-> e]

ParseNumber(s, i) ==
  LET neg == s[i] = 45
      a == IF neg THEN i + 1 ELSE i
      b == DigitsEnd(s, a)
      hasFrac == b <= Len(s) /\ s[b] = 46
      c == IF hasFrac THEN DigitsEnd(s, b + 1) ELSE b
      int == DigitsValue(s, a, b, 0)
      e == IF hasFrac THEN c - (b + 1) ELSE 0
      mag == DigitsValue(s, b + 1, c, int)
      n == Normalize(IF neg THEN 0 - mag ELSE mag, e)
  IN IF b = a THEN ParseFail
     ELSE IF b - a > 1 /\ s[a] = 48 THEN ParseFail
     ELSE IF hasFrac /\ c = b + 1 THEN ParseFail
     ELSE IF c <= Len(s) /\ s[c] \in {69, 101} THEN ParseFail
     ELSE ParseOk(JNum(n.m, n.e), c)

Unescape(c) ==
  CASE c = 34 -> 34 [] c = 92 -> 92 [] c = 47 -> 47 [] c = 98 -> 8
    [] c = 102 -> 12 [] c = 110 -> 10 [] c = 114 -> 13 [] c = 116 -> 9
    [] OTHER -> 0

\* i is the index after the opening quote
RECURSIVE ParseString(_, _, _)
ParseString(s, i, acc) ==
  IF i > Len(s) THEN ParseFail
  ELSE IF s[i] = 34 THEN ParseOk(JStr(acc), i + 1)
  ELSE IF s[i] < 32 THEN ParseFail
  ELSE IF s[i] = 92 THEN
    IF i + 1 > Len(s) \/ Unescape(s[i + 1]) = 0 THEN ParseFail
    ELSE ParseString(s, i + 2, Append(acc, Unescape(s[i + 1])))
  ELSE ParseString(s, i + 1, Append(acc, s[i]))

ParseLiteral(s, i, word, v) ==
  IF i + Len(word) - 1 <= Len(s) /\ SubSeq(s, i, i + Len(word) - 1) = word
  THEN ParseOk(v, i + Len(word))
  ELSE ParseFail

RECURSIVE ParseValue(_, _)
RECURSIVE ParseElements(_, _, _)
RECURSIVE ParseMembers(_, _, _)
RECURSIVE ElementsAfter(_, _, _)
RECURSIVE MembersAfterKey(_, _, _)
RECURSIVE MembersAfterValue(_, _, _, _)

ParseValue(s, i0) ==
  LET i == SkipWs(s, i0) IN
  IF i > Len(s) THEN ParseFail
  ELSE IF s[i] = 123 THEN
    LET j == SkipWs(s, i + 1) IN
    IF j <= Len(s) /\ s[j] = 125 THEN ParseOk(JObj(<<>>), j + 1)
    ELSE ParseMembers(s, j, <<>>)
  ELSE IF s[i] = 91 THEN
    LET j == SkipWs(s, i + 1) IN
    IF j <= Len(s) /\ s[j] = 93 THEN ParseOk(JArr(<<>>), j + 1)
    ELSE ParseElements(s, j, <<>>)
  ELSE IF s[i] = 34 THEN ParseString(s, i + 1, <<>>)
  ELSE IF s[i] = 116 THEN ParseLiteral(s, i, TxtTrue, JBool(TRUE))
  ELSE IF s[i] = 102 THEN ParseLiteral(s, i, TxtFalse, JBool(FALSE))
  ELSE IF s[i] = 110 THEN ParseLiteral(s, i, TxtNull, JNull)
  ELSE IF s[i] = 45 \/ IsDigit(s[i]) THEN ParseNumber(s, i)
  ELSE ParseFail

\* elements after '[': value (',' value)* ']'
ParseElements(s, i, acc) == ElementsAfter(s, acc, ParseValue(s, i))

\* r is the element just parsed
ElementsAfter(s, acc, r) ==
  IF ~r.ok THEN ParseFail
  ELSE LET j == SkipWs(s, r.i) IN
    IF j > Len(s) THEN ParseFail
    ELSE IF s[j] = 93 THEN ParseOk(JArr(Append(acc, r.v)), j + 1)
    ELSE IF s[j] = 44 THEN ParseElements(s, j + 1, Append(acc, r.v))
    ELSE ParseFail

\* members after '{': string ':' value (',' string ':' value)* '}'
ParseMembers(s, i0, acc) ==
  LET i == SkipWs(s, i0) IN
  IF i > Len(s) \/ s[i] # 34 THEN ParseFail
  ELSE MembersAfterKey(s, acc, ParseString(s, i + 1, <<>>))

\* k is the member name just parsed
MembersAfterKey(s, acc, k) ==
  IF ~k.ok THEN ParseFail
  ELSE LET c == SkipWs(s, k.i) IN
    IF c > Len(s) \/ s[c] # 58 THEN ParseFail
    ELSE MembersAfterValue(s, acc, k.v.v, ParseValue(s, c + 1))

\* r is the member value just parsed
MembersAfterValue(s, acc, key, r) ==
  IF ~r.ok THEN ParseFail
  ELSE LET j == SkipWs(s, r.i) IN
    IF j > Len(s) THEN ParseFail
    ELSE IF s[j] = 125 THEN ParseOk(JObj(Append(acc, [k |-> key, val |-> r.v])), j + 1)
    ELSE IF s[j] = 44 THEN ParseMembers(s, j + 1, Append(acc, [k |-> key, val |-> r.v]))
    ELSE ParseFail

\* JSON.parse(text): [ok |-> FALSE] stands for the SyntaxError it throws;
\* r is the value parsed from the start, nothing but white space may follow
Whole(s, r) ==
  IF r.ok /\ SkipWs(s, r.i) > Len(s) THEN [ok |-> TRUE, v |-> r.v]
  ELSE [ok |-> FALSE, v |-> JNull]

JSONparse(s) == Whole(s, ParseValue(s, 1))

\* ------------------------------------------------------------------------
\* Untyped records: property access and the coercions of toSearchResult
\* ------------------------------------------------------------------------

JUndef == [t |-> "undef", v |-> 0]

\* obj[key] of a parsed object: the last member of that name, else undefined
RECURSIVE GetFrom(_, _, _)
GetFrom(ms, key, i) ==
  IF i = 0 THEN JUndef
  ELSE IF ms[i].k = key THEN ms[i].val
  ELSE GetFrom(ms, key, i - 1)

Get(obj, key) == GetFrom(obj.v, key, Len(obj.v))

isRecord(x) == x.t = "obj"
isArray(x) == x.t = "arr"
IsNullish(x) == x.t \in {"undef", "null"}

\* a ?? b
Coalesce(a, b) == IF IsNullish(a) THEN b ELSE a

RECURSIVE NatText(_)
NatText(n) == IF n < 10 THEN <<48 + n>> ELSE Append(NatText(n \div 10), 48 + (n % 10))

RECURSIVE Pow10(_)
Pow10(e) == IF e = 0 THEN 1 ELSE 10 * Pow10(e - 1)

RECURSIVE ZeroPad(_, _)
ZeroPad(txt, width) == IF Len(txt) >= width THEN txt ELSE ZeroPad(<<48>> \o txt, width)

\* Number::toString of m / 10^e (decimal notation)
NumText(n) ==
  LET mag == IF n.m < 0 THEN 0 - n.m ELSE n.m
      sign == IF n.m < 0 THEN <<45>> ELSE <<>>
      whole == NatText(mag \div Pow10(n.e))
  IN IF n.e = 0 THEN sign \o whole
     ELSE sign \o whole \o <<46>> \o ZeroPad(NatText(mag % Pow10(n.e)), n.e)

\* String(x)
RECURSIVE ToText(_)
RECURSIVE JoinComma(_, _)
ToText(x) ==
  CASE x.t = "str" -> x.v
    [] x.t = "num" -> NumText(x.v)
    [] x.t = "bool" -> IF x.v THEN TxtTrue ELSE TxtFalse
    [] x.t = "null" -> TxtNull
    [] x.t = "undef" -> TxtUndefined
    [] x.t = "obj" -> TxtObject
    [] x.t = "arr" -> JoinComma(x.v, 1)

JoinComma(xs, i) ==
  IF i > Len(xs) THEN <<>>
  ELSE (IF IsNullish(xs[i]) THEN <<>> ELSE ToText(xs[i]))
       \o (IF i < Len(xs) THEN <<44>> ELSE <<>>)
       \o JoinComma(xs, i + 1)

\* a JavaScript number: finite m / 10^e, NaN, or an infinity
Fin(m, e) == [k |-> "fin", m |-> m, e |-> e]
NaN == [k |-> "nan", m |-> 0, e |-> 0]
Infinite == [k |-> "inf", m |-> 0, e |-> 0]

\* StringToNumber: [sign] digits [. digits] | [sign] . digits | [sign] Infinity,
\* surrounding white space ignored, the empty string is 0, all else is NaN
\* (hexadecimal, binary, octal and exponent literals are not modelled)
TextToNumber(txt) ==
  LET u == trim(txt)
      signed == u # <<>> /\ u[1] \in {43, 45}
      neg == u # <<>> /\ u[1] = 45
      a == IF signed THEN 2 ELSE 1
      b == DigitsEnd(u, a)
      hasDot == b <= Len(u) /\ u[b] = 46
      c == IF hasDot THEN DigitsEnd(u, b + 1) ELSE b
      nd == (b - a) + (IF hasDot THEN c - (b + 1) ELSE 0)
      mag == IF hasDot THEN DigitsValue(u, b + 1, c, DigitsValue(u, a, b, 0))
             ELSE DigitsValue(u, a, b, 0)
      n == Normalize(IF neg THEN 0 - mag ELSE mag, IF hasDot THEN c - (b + 1) ELSE 0)
  IN IF u = <<>> THEN Fin(0, 0)
     ELSE IF slice(u, a - 1) = TxtInfinity THEN Infinite
     ELSE IF nd = 0 \/ c <= Len(u) THEN NaN
     ELSE Fin(n.m, n.e)

\* Number(x)
ToNumber(x) ==
  CASE x.t = "num" -> Fin(x.v.m, x.v.e)
    [] x.t \in {"str", "arr"} -> TextToNumber(IF x.t = "str" THEN x.v ELSE ToText(x))
    [] x.t = "bool" -> IF x.v THEN Fin(1, 0) ELSE Fin(0, 0)
    [] x.t = "null" -> Fin(0, 0)
    [] x.t = "undef" -> NaN
    [] x.t = "obj" -> NaN

isFinite(n) == n.k = "fin"

\* mutant: the parsed score is passed on as it is
FiniteOrSame(parsedScore) == parsedScore

\* Number.isFinite(parsedScore) ? parsedScore : 0
FiniteOrZero(parsedScore) == IF isFinite(parsedScore) THEN parsedScore ELSE Fin(0, 0)

\* mutant: raw.text is not looked at
toSearchResultContentOnly(raw) ==
  LET scoreRaw == Get(raw, K_score)
      metadata == IF isRecord(Get(raw, K_metadata)) THEN Get(raw, K_metadata) ELSE EmptyObj
  IN [id |-> ToText(Coalesce(Coalesce(Get(raw, K_id), Get(raw, K_chunk_id)), JStr(<<>>))),
      content |-> (IF Get(raw, K_content).t = "str" THEN Get(raw, K_content) ELSE JStr(<<>>)).v,
      score |-> FiniteOrZero(ToNumber(Coalesce(scoreRaw, JNum(0, 0)))),
      metadata |-> metadata,
      documentId |-> IF Get(raw, K_document_id).t = "str" THEN Get(raw, K_document_id) ELSE JUndef,
      collectionId |-> IF Get(raw, K_collection_id).t = "str" THEN Get(raw, K_collection_id) ELSE JUndef]

toSearchResult(raw) ==
  LET scoreRaw == Get(raw, K_score)
      metadata == IF isRecord(Get(raw, K_metadata)) THEN Get(raw, K_metadata) ELSE EmptyObj
  IN [id |-> ToText(Coalesce(Coalesce(Get(raw, K_id), Get(raw, K_chunk_id)), JStr(<<>>))),
      content |-> Coalesce(IF Get(raw, K_text).t = "str" THEN Get(raw, K_text) ELSE JUndef,
                           IF Get(raw, K_content).t = "str" THEN Get(raw, K_content)
                           ELSE JStr(<<>>)).v,
      \* typeof scoreRaw === 'number' ? scoreRaw : Number(scoreRaw ?? 0)
      score |-> FiniteOrZero(ToNumber(Coalesce(scoreRaw, JNum(0, 0)))),
      metadata |-> metadata,
      documentId |-> IF Get(raw, K_document_id).t = "str" THEN Get(raw, K_document_id) ELSE JUndef,
      collectionId |-> IF Get(raw, K_collection_id).t = "str" THEN Get(raw, K_collection_id) ELSE JUndef]

RECURSIVE MapFrom(_, _)
MapFrom(xs, i) ==
  IF i > Len(xs) THEN <<>>
  ELSE IF ~isRecord(xs[i]) THEN MapFrom(xs, i + 1)
  ELSE <<toSearchResult(xs[i])>> \o MapFrom(xs, i + 1)

mapSearchResults(rawResults) ==
  IF ~isArray(rawResults) THEN <<>> ELSE MapFrom(rawResults.v, 1)

\* mutant: the top-level sources are taken whenever they are a list
extractChatSourcesTopFirst(payload) ==
  LET ragoraStats == Get(payload, K_ragora_stats) IN
  mapSearchResults(IF isArray(Get(payload, K_sources)) \/ ~isRecord(ragoraStats)
                   THEN Get(payload, K_sources)
                   ELSE Get(ragoraStats, K_sources))

extractChatSources(payload) ==
  LET ragoraStats == Get(payload, K_ragora_stats) IN
  mapSearchResults(IF isRecord(ragoraStats) /\ isArray(Get(ragoraStats, K_sources))
                   THEN Get(ragoraStats, K_sources)
                   ELSE Get(payload, K_sources))

\* ------------------------------------------------------------------------
\* The event interpreter: parseEvent of chatStream
\* ------------------------------------------------------------------------

Message == K_message
DoneSentinel == S("[DONE]")

NoChunk == [content |-> <<>>, finishReason |-> JUndef, sources |-> <<>>]
Nothing == [done |-> FALSE, hasChunk |-> FALSE, chunk |-> NoChunk]
Terminate == [done |-> TRUE, hasChunk |-> FALSE, chunk |-> NoChunk]
Yield(c) == [done |-> FALSE, hasChunk |-> TRUE, chunk |-> c]

\* !finishReason
Falsy(x) == IsNullish(x) \/ (x.t = "str" /\ x.v = <<>>)

\* mutant: a sources event gives a chunk even without sources
sourcesOnlyAlways(sources) ==
  Yield([content |-> <<>>, finishReason |-> JUndef, sources |-> sources])

\* if (sources.length > 0) return { chunk: { content: '', sources, done: false } }
sourcesOnly(sources) ==
  IF Len(sources) = 0 THEN Nothing
  ELSE Yield([content |-> <<>>, finishReason |-> JUndef, sources |-> sources])

\* the branch for ragora_metadata and ragora_complete
sourcesChunk(parsed) == sourcesOnly(extractChatSources(parsed))

\* mutant: empty keep-alive chunks are not suppressed
deltaChunkKeepAlive(content, finishReason, sources) ==
  Yield([content |-> content, finishReason |-> finishReason, sources |-> sources])

\* if (!content && !finishReason && sources.length === 0) return { done: false }
deltaChunk(content, finishReason, sources) ==
  IF content = <<>> /\ Falsy(finishReason) /\ Len(sources) = 0 THEN Nothing
  ELSE Yield([content |-> content, finishReason |-> finishReason, sources |-> sources])

\* the branch for every other event name
contentChunk(parsed) ==
  LET choices == IF isArray(Get(parsed, K_choices)) THEN Get(parsed, K_choices).v ELSE <<>>
      firstChoice == IF Len(choices) > 0 /\ isRecord(choices[1]) THEN choices[1] ELSE EmptyObj
      delta == IF isRecord(Get(firstChoice, K_delta)) THEN Get(firstChoice, K_delta) ELSE EmptyObj
      content == IF Get(delta, K_content).t = "str" THEN Get(delta, K_content).v ELSE <<>>
      finishReason == IF Get(firstChoice, K_finish_reason).t = "str"
                      THEN Get(firstChoice, K_finish_reason) ELSE JUndef
  IN deltaChunk(content, finishReason, extractChatSources(parsed))

\* mutant: a payload that is not an object ends the stream
interpretNonRecordEnds(currentEvent, parsed) ==
  IF ~isRecord(parsed) THEN Terminate
  ELSE IF currentEvent = EvMetadata \/ currentEvent = EvComplete THEN sourcesChunk(parsed)
  ELSE contentChunk(parsed)

\* mutant: the event name is not looked at
interpretAllContent(currentEvent, parsed) ==
  IF ~isRecord(parsed) THEN Nothing
  ELSE contentChunk(parsed)

\* mutant: only frames named message are content frames
interpretMessageOnly(currentEvent, parsed) ==
  IF ~isRecord(parsed) THEN Nothing
  ELSE IF currentEvent = EvMetadata \/ currentEvent = EvComplete THEN sourcesChunk(parsed)
  ELSE IF currentEvent = Message THEN contentChunk(parsed)
  ELSE Nothing

\* the body of the try block, for a payload that JSON.parse accepted
interpret(currentEvent, parsed) ==
  IF ~isRecord(parsed) THEN Nothing
  ELSE IF currentEvent = EvMetadata \/ currentEvent = EvComplete THEN sourcesChunk(parsed)
  ELSE contentChunk(parsed)

\* the try block around JSON.parse(dataStr); parsed is its outcome
tryParsed(currentEvent, parsed) ==
  IF ~parsed.ok THEN Nothing      \* catch { return { done: false } }
  ELSE interpret(currentEvent, parsed.v)

\* mutant: a payload that is not JSON ends the stream
parseEventFailEnds(currentEvent, currentDataLines) ==
  IF Len(currentDataLines) = 0 THEN Nothing
  ELSE LET dataStr == join(currentDataLines) IN
    IF dataStr = DoneSentinel THEN Terminate
    ELSE LET parsed == JSONparse(dataStr) IN
      IF ~parsed.ok THEN Terminate
      ELSE interpret(currentEvent, parsed.v)

parseEvent(currentEvent, currentDataLines) ==
  IF Len(currentDataLines) = 0 THEN Nothing
  ELSE LET dataStr == join(currentDataLines) IN
    IF dataStr = DoneSentinel THEN Terminate
    ELSE tryParsed(currentEvent, JSONparse(dataStr))

\* ------------------------------------------------------------------------
\* The byte-stream framer: the line loop of chatStream
\* ------------------------------------------------------------------------

EventPrefix == S("event:")
DataPrefix == S("data:")

\* mutant: an empty event name is kept
OrMessageEmpty(name) == name

\* a || 'message'
OrMessage(name) == IF name = <<>> THEN Message ELSE name

\* history record of one call of parseEvent
Dispatched(ev, dl, parsed) ==
  [eventName |-> ev, dataLines |-> dl, hasChunk |-> parsed.hasChunk, chunk |-> parsed.chunk]

RECURSIVE runLines(_, _, _, _)

\* mutant: a frame that gave nothing is not cleared at its blank line
blankLineKeepsFrame(rest, ev, dl, fr, parsed) ==
  IF parsed.hasChunk THEN
    [stop |-> "yield", chunk |-> parsed.chunk, done |-> parsed.done, rest |-> rest,
     ev |-> Message, dl |-> <<>>, fr |-> Append(fr, Dispatched(ev, dl, parsed))]
  ELSE IF parsed.done THEN
    [stop |-> "return", chunk |-> NoChunk, done |-> TRUE, rest |-> rest,
     ev |-> Message, dl |-> <<>>, fr |-> Append(fr, Dispatched(ev, dl, parsed))]
  ELSE runLines(rest, ev, dl, Append(fr, Dispatched(ev, dl, parsed)))

\* mutant: after a frame that gave nothing the next read is awaited at once
blankLineReadsEarly(rest, ev, dl, fr, parsed) ==
  IF parsed.hasChunk THEN
    [stop |-> "yield", chunk |-> parsed.chunk, done |-> parsed.done, rest |-> rest,
     ev |-> Message, dl |-> <<>>, fr |-> Append(fr, Dispatched(ev, dl, parsed))]
  ELSE IF parsed.done THEN
    [stop |-> "return", chunk |-> NoChunk, done |-> TRUE, rest |-> rest,
     ev |-> Message, dl |-> <<>>, fr |-> Append(fr, Dispatched(ev, dl, parsed))]
  ELSE
    [stop |-> "more", chunk |-> NoChunk, done |-> FALSE, rest |-> rest,
     ev |-> Message, dl |-> <<>>, fr |-> Append(fr, Dispatched(ev, dl, parsed))]

\* a blank line: the frame (ev, dl) has been handed to parseEvent, eventName
\* and dataLines are reset, then the chunk is yielded or the generator returns
blankLine(rest, ev, dl, fr, parsed) ==
  IF parsed.hasChunk THEN
    [stop |-> "yield", chunk |-> parsed.chunk, done |-> parsed.done, rest |-> rest,
     ev |-> Message, dl |-> <<>>, fr |-> Append(fr, Dispatched(ev, dl, parsed))]
  ELSE IF parsed.done THEN
    [stop |-> "return", chunk |-> NoChunk, done |-> TRUE, rest |-> rest,
     ev |-> Message, dl |-> <<>>, fr |-> Append(fr, Dispatched(ev, dl, parsed))]
  ELSE runLines(rest, Message, <<>>, Append(fr, Dispatched(ev, dl, parsed)))

\* mutant: the loop goes on after a frame that reported done
RECURSIVE runLinesPastDone(_, _, _, _)
runLinesPastDone(ls, ev, dl, fr) ==
  IF ls = <<>> THEN
    [stop |-> "more", chunk |-> NoChunk, done |-> FALSE, rest |-> <<>>,
     ev |-> ev, dl |-> dl, fr |-> fr]
  ELSE
    LET line == trimEnd(ls[1]) IN
    IF line = <<>> THEN
      LET parsed == parseEvent(ev, dl)
          fr2 == Append(fr, Dispatched(ev, dl, parsed))
      IN IF parsed.hasChunk THEN
           [stop |-> "yield", chunk |-> parsed.chunk, done |-> parsed.done, rest |-> Tail(ls),
            ev |-> Message, dl |-> <<>>, fr |-> fr2]
         ELSE runLinesPastDone(Tail(ls), Message, <<>>, fr2)
    ELSE IF startsWith(line, EventPrefix) THEN
      runLinesPastDone(Tail(ls), OrMessage(trim(slice(line, 6))), dl, fr)
    ELSE IF startsWith(line, DataPrefix) THEN
      runLinesPastDone(Tail(ls), ev, Append(dl, trimStart(slice(line, 5))), fr)
    ELSE runLinesPastDone(Tail(ls), ev, dl, fr)

\* The for loop over the complete lines, run until it suspends at a yield
\* ("yield"), returns on [DONE] ("return") or runs out of lines ("more").
\* fr collects the frames handed to parseEvent on the way.
runLines(ls, ev, dl, fr) ==
  IF ls = <<>> THEN
    [stop |-> "more", chunk |-> NoChunk, done |-> FALSE, rest |-> <<>>,
     ev |-> ev, dl |-> dl, fr |-> fr]
  ELSE
    LET line == trimEnd(ls[1]) IN
    IF line = <<>> THEN
      blankLine(Tail(ls), ev, dl, fr, parseEvent(ev, dl))
    ELSE IF startsWith(line, EventPrefix) THEN
      runLines(Tail(ls), OrMessage(trim(slice(line, 6))), dl, fr)
    ELSE IF startsWith(line, DataPrefix) THEN
      runLines(Tail(ls), ev, Append(dl, trimStart(slice(line, 5))), fr)
    ELSE runLines(Tail(ls), ev, dl, fr)

\* lines.pop() ?? '' and the lines before it
Last(xs) == xs[Len(xs)]
Front(xs) == SubSeq(xs, 1, Len(xs) - 1)

\* mutant: the buffered remainder is dropped at the end of the body
tailFrameDropped(buf, ev, dl) == [eventName |-> ev, dataLines |-> dl]

\* the done branch: the buffered remainder is treated as one closing line
tailFrame(buf, ev, dl) ==
  LET tail == trimEnd(buf) IN
  IF startsWith(tail, EventPrefix)
  THEN [eventName |-> OrMessage(trim(slice(tail, 6))), dataLines |-> dl]
  ELSE IF startsWith(tail, DataPrefix)
  THEN [eventName |-> ev, dataLines |-> Append(dl, trimStart(slice(tail, 5)))]
  ELSE [eventName |-> ev, dataLines |-> dl]

\* ------------------------------------------------------------------------
\* handleError: the RagoraError thrown for a response that is not ok
\* ------------------------------------------------------------------------

NoError == [kind |-> "none", statusCode |-> 0, message |-> <<>>, api |-> FALSE]
RagoraError(message, statusCode, api) ==
  [kind |-> "RagoraError", statusCode |-> statusCode, message |-> message, api |-> api]
PlainError(kind) == [kind |-> kind, statusCode |-> 0, message |-> <<>>, api |-> FALSE]

\* ToBoolean(x)
Truthy(x) ==
  CASE x.t \in {"undef", "null"} -> FALSE
    [] x.t = "bool" -> x.v
    [] x.t = "num" -> x.v.m # 0
    [] x.t = "str" -> x.v # <<>>
    [] OTHER -> TRUE

\* message of the catch branch: response.statusText || `HTTP ${response.status}`
FallbackMessage(status, statusText) ==
  IF statusText # <<>> THEN statusText ELSE TxtHttp \o NatText(status)

\* the RagoraError built from the parsed body (not null): the try block after
\* response.json()
errorOf(data, status, statusText) ==
  LET errorData == IF isRecord(data) THEN Get(data, K_error) ELSE JUndef
      message == IF isRecord(data) THEN Get(data, K_message) ELSE JUndef
  IN IF Truthy(errorData) THEN
       IF errorData.t \in {"obj", "arr"} THEN
         RagoraError(ToText(Coalesce(IF isRecord(errorData) THEN Get(errorData, K_message) ELSE JUndef,
                                     JStr(TxtUnknownError))), status, TRUE)
       ELSE RagoraError(ToText(errorData), status, FALSE)
     ELSE RagoraError(ToText(Coalesce(message, JStr(statusText))), status, FALSE)

\* what handleError throws; data is the outcome of parsing the body
thrown(status, statusText, data, jsonRejects) ==
  IF jsonRejects \/ ~data.ok THEN RagoraError(FallbackMessage(status, statusText), status, FALSE)
  ELSE IF IsNullish(data.v)
    \* data.error on null throws a TypeError, which the catch branch replaces
    THEN RagoraError(FallbackMessage(status, statusText), status, FALSE)
  ELSE errorOf(data.v, status, statusText)

\* mutant: the catch branch is missing, a body that is not JSON throws as it is
handleErrorNoCatch(status, statusText, body, jsonRejects) ==
  LET data == JSONparse(body) IN
  IF jsonRejects \/ ~data.ok THEN PlainError("SyntaxError")
  ELSE IF IsNullish(data.v) THEN PlainError("TypeError")
  ELSE errorOf(data.v, status, statusText)

\* body is the text of the response body; jsonRejects: response.json() rejected
\* before yielding any text (aborted or broken transfer)
handleError(status, statusText, body, jsonRejects) ==
  thrown(status, statusText, JSONparse(body), jsonRejects)

\* ------------------------------------------------------------------------
\* Inputs: response bodies built from a library of SSE frames
\* ------------------------------------------------------------------------

MaxChunk == 2

EncodeChar(c) ==
  IF c < 128 THEN <<c>>
  ELSE IF c < 2048 THEN <<192 + (c \div 64), 128 + (c % 64)>>
  ELSE IF c < 65536 THEN <<224 + (c \div 4096), 128 + ((c \div 64) % 64), 128 + (c % 64)>>
  ELSE <<240 + (c \div 262144), 128 + ((c \div 4096) % 64), 128 + ((c \div 64) % 64), 128 + (c % 64)>>

\* UTF-8 encoding of a text (what the server puts on the wire)
RECURSIVE Encode(_)
Encode(txt) ==
  IF Len(txt) = 0 THEN <<>>
  ELSE IF Len(txt) = 1 THEN EncodeChar(txt[1])
  ELSE LET h == Len(txt) \div 2
       IN Encode(SubSeq(txt, 1, h)) \o Encode(SubSeq(txt, h + 1, Len(txt)))

\* the lines of each frame of the library, without line ends
FrameLib ==
  << \* 1: content delta with a two-byte and a three-byte character
     << S("data: {\"choices\":[{\"delta\":{\"content\":\"") \o <<233, 8364>> \o S("\"}}]}") >>,
     \* 2: sources event
     << S("event: ragora_metadata"), S("data:{\"sources\":[{\"id\":\"a\"}]}") >>,
     \* 3: the sentinel
     << S("data: [DONE]") >>,
     \* 4: payload that is not JSON
     << S("data: {\"choices\":") >>,
     \* 5: payload that is JSON but not an object
     << S("data: [1]") >>,
     \* 6: keep-alive
     << S("data: {\"choices\":[{\"delta\":{}}]}") >>,
     \* 7: finish reason, payload on two data lines, a comment and an id line
     << S(": ping"), S("data: {\"choices\":"), S("id: 7"), S("data: [{\"finish_reason\":\"stop\"}]}") >>,
     \* 8: sources event that also carries a content delta, event line last
     << S("data: {\"choices\":[{\"delta\":{\"content\":\"x\"}}],\"sources\":[{}]}"),
        S("event:ragora_complete") >>,
     \* 9: completion event without sources that carries a content delta
     << S("event:ragora_complete"),
        S("data: {\"choices\":[{\"delta\":{\"content\":\"x\"}}],\"sources\":[]}") >>,
     \* 10: event line only
     << S("event: ping") >>,
     \* 11: content delta under an unknown event name
     << S("event: ping"), S("data:{\"choices\":[{\"delta\":{\"content\":\"y\"}}]}") >>
  >>

FrameIds == 1..Len(FrameLib)

Eols == {"LF", "CRLF"}
\* how the body ends: after a blank line, after a line end, or inside a line
Endings == {"closed", "noBlank", "noEol"}

EolText(eol) == IF eol = "LF" THEN <<LF>> ELSE <<CR, LF>>

RECURSIVE LinesText(_, _)
LinesText(ls, eol) ==
  IF ls = <<>> THEN <<>> ELSE ls[1] \o EolText(eol) \o LinesText(Tail(ls), eol)

\* the text of the body of a scenario
RECURSIVE BodyText(_, _, _)
BodyText(ids, eol, ending) ==
  IF ids = <<>> THEN <<>>
  ELSE IF Len(ids) > 1 \/ ending = "closed"
    THEN LinesText(FrameLib[ids[1]], eol) \o EolText(eol) \o BodyText(Tail(ids), eol, ending)
  ELSE IF ending = "noBlank" THEN LinesText(FrameLib[ids[1]], eol)
  ELSE LinesText(Front(FrameLib[ids[1]]), eol) \o Last(FrameLib[ids[1]])

Sc(ids, eol, ending) == [ids |-> ids, eol |-> eol, ending |-> ending]

\* the response bodies the model runs on
Scenarios ==
  { Sc(<<1>>, "LF", "closed"), Sc(<<1>>, "CRLF", "noEol"), Sc(<<1>>, "LF", "noBlank"),
    Sc(<<2>>, "CRLF", "closed"), Sc(<<2>>, "LF", "noEol"),
    Sc(<<3, 1>>, "LF", "closed"), Sc(<<1, 3>>, "LF", "noEol"), Sc(<<3>>, "CRLF", "noBlank"),
    Sc(<<4, 1>>, "LF", "closed"), Sc(<<4>>, "LF", "noEol"), Sc(<<5, 7>>, "LF", "closed"),
    Sc(<<6, 2>>, "CRLF", "closed"), Sc(<<7>>, "CRLF", "noBlank"), Sc(<<7>>, "LF", "noEol"),
    Sc(<<9, 8>>, "LF", "closed"), Sc(<<8>>, "LF", "noEol"), Sc(<<9>>, "CRLF", "noBlank"),
    Sc(<<10, 11>>, "LF", "closed"), Sc(<<10>>, "LF", "noEol"), Sc(<<10, 1>>, "CRLF", "closed"),
    Sc(<<2, 4, 1>>, "LF", "closed"), Sc(<<11, 3, 2>>, "CRLF", "closed") }

Bytes(sc) == Encode(BodyText(sc.ids, sc.eol, sc.ending))

\* ------------------------------------------------------------------------
\* chatStream as a state machine: one action per resumption of the generator
\* ------------------------------------------------------------------------

\* this.timeout, in clock ticks
timeout == 2

StatusCodes == {200, 401, 429, 500}
StatusText(st) == IF st = 401 THEN S("Unauthorized") ELSE <<>>

ErrorBodies ==
  { S("{\"error\":{\"code\":\"c\",\"message\":\"m\"}}"),
    S("{\"error\":\"bad\"}"),
    S("{\"error\":[1]}"),
    S("{\"message\":\"m\"}"),
    S("{\"error\":0}"),
    S("null"),
    S("[]"),
    S("<html>"),
    <<>> }

VARIABLES
  scenario,     \* the response body the server sends: ids of frames, line ends, ending
  body,         \* the bytes of that body
  pc,           \* where the generator is: idle, fetch, errbody, read, yield, done, error, abandoned
  status,       \* response.status, 0 before the response
  pos,          \* bytes of the body already handed out by reader.read()
  decoder,      \* state of the TextDecoder
  buffer,       \* let buffer
  eventName,    \* let eventName
  dataLines,    \* let dataLines
  lines,        \* lines of the current read not yet looked at (suspended for loop)
  yieldAt,      \* which yield the generator is suspended at: loop, tail, none
  parsedDone,   \* parsed.done of the frame whose chunk was yielded
  readerHeld,   \* the body stream is locked to the reader of chatStream
  timerArmed,   \* timeoutId is pending
  aborted,      \* controller.signal.aborted
  err,          \* the error thrown to the consumer
  elapsed,      \* ticks since the call of chatStream, up to the timeout
  gap,          \* ticks since the last chunk was received (since the call before the first)
  slow,         \* history: some wait for a chunk lasted the timeout or longer
  abortedAt,    \* history: pc when the timer fired, none before
  out,          \* history: chunks yielded to the consumer
  frames,       \* history: frames handed to parseEvent
  eof,          \* history: reader.read() reported done
  readFailed,   \* history: reader.read() rejected
  midCut,       \* history: a chunk ended inside a multi-byte character
  pullReads     \* history: calls of reader.read() since the consumer's last next(): none, one, many

\* state of the operations that are called on their own (modelled further down)
VARIABLES
  input,        \* the call under test: [fn |-> name of the function, ...its arguments]
  result,       \* what the call returned, <<>> before
  called        \* the call has returned

callVars == <<input, result, called>>

\* no function is called on its own
NoCall ==
  /\ input = [fn |-> "none"]
  /\ result = <<>>
  /\ called = FALSE

\* state of waitForDocument
VARIABLES
  wpc,          \* where the call is: idle, poll, sleep, returned, thrown
  waitTimeout,  \* const timeout, in ms
  pollInterval, \* const pollInterval, in ms
  now,          \* Date.now() - startTime, in ms, up to the timeout
  slept,        \* ms since setTimeout(resolve, pollInterval) was called, up to pollInterval
  lastStatus,   \* the DocumentStatus of the last poll that returned
  lateAtPoll,   \* history: elapsed >= timeout when the last poll returned
  polls,        \* history: status requests made, up to MaxPolls
  wres,         \* the DocumentStatus returned
  werr          \* the error thrown

waitVars == <<wpc, waitTimeout, pollInterval, now, slept, lastStatus, lateAtPoll, polls, wres, werr>>

\* state of AgenticRAGAgent
VARIABLES
  sessionId,    \* this.sessionId
  ops,          \* the calls of chat and chatStream in flight, by slot
  wroteDuring   \* history: sessionId was written while another call that writes it was in flight

agentVars == <<sessionId, ops, wroteDuring>>

\* state of searchWithRetry
VARIABLES
  rpc,          \* where the call is: idle, search, backoff, returned, thrown
  maxRetries,   \* the parameter maxRetries
  attempt,      \* let attempt
  searches,     \* history: calls of client.search
  failures,     \* history: the errors the attempts failed with, in order
  rerr          \* the error thrown

retryVars == <<rpc, maxRetries, attempt, searches, failures, rerr>>

\* state of a call of request or uploadDocument
VARIABLES
  rkind,        \* the method called: none, request, uploadDocument
  rq,           \* where the call is: idle, fetch, errbody, json, returned, thrown
  rtimer,       \* timeoutId is pending
  raborted      \* controller.signal.aborted

reqVars == <<rkind, rq, rtimer, raborted>>

\* what chatStream never writes: its inputs and the state of the other operations
inVars == <<scenario, body, callVars, waitVars, agentVars, retryVars, reqVars>>
genVars == <<decoder, buffer, eventName, dataLines, lines, yieldAt, parsedDone>>
timeVars == <<elapsed, gap, slow>>
histVars == <<out, frames, eof, readFailed, midCut>>
streamVars == <<scenario, body, pc, status, pos, readerHeld, timerArmed, aborted, err,
                abortedAt, genVars, timeVars, histVars, pullReads>>
vars == <<inVars, pc, status, pos, readerHeld, timerArmed, aborted, err, abortedAt,
          genVars, timeVars, histVars, pullReads>>

Min(a, b) == IF a < b THEN a ELSE b

\* the generator object before its first next()
NotStarted ==
  /\ pc = "idle"
  /\ status = 0
  /\ pos = 0
  /\ decoder = NewDecoder
  /\ buffer = <<>>
  /\ eventName = Message
  /\ dataLines = <<>>
  /\ lines = <<>>
  /\ yieldAt = "none"
  /\ parsedDone = FALSE
  /\ readerHeld = FALSE
  /\ timerArmed = FALSE
  /\ aborted = FALSE
  /\ err = NoError
  /\ elapsed = 0
  /\ gap = 0
  /\ slow = FALSE
  /\ abortedAt = "none"
  /\ out = <<>>
  /\ frames = <<>>
  /\ eof = FALSE
  /\ readFailed = FALSE
  /\ midCut = FALSE
  /\ pullReads = "none"

\* no stream is open: the state of chatStream while other operations are modelled
NoStream ==
  /\ scenario = Sc(<<>>, "LF", "closed")
  /\ body = <<>>
  /\ NotStarted

\* a DocumentStatus, as far as waitForDocument reads it
DocumentStatus(st, stage) == [status |-> st, progressStage |-> stage]

\* waitForDocument is not called
NoWait ==
  /\ wpc = "idle"
  /\ waitTimeout = 0
  /\ pollInterval = 0
  /\ now = 0
  /\ slept = 0
  /\ lastStatus = DocumentStatus("none", JUndef)
  /\ lateAtPoll = FALSE
  /\ polls = 0
  /\ wres = DocumentStatus("none", JUndef)
  /\ werr = NoError

MaxOps == 2
Slots == 1..MaxOps
Free == [kind |-> "free", pc |-> "none", sent |-> "undefined"]

\* new AgenticRAGAgent(client, agentId): no call in flight
NewAgent ==
  /\ sessionId = "undefined"
  /\ ops = [i \in Slots |-> Free]
  /\ wroteDuring = FALSE

\* neither request nor uploadDocument is called
NoRequest ==
  /\ rkind = "none"
  /\ rq = "idle"
  /\ rtimer = FALSE
  /\ raborted = FALSE

\* searchWithRetry is not called
NoRetry ==
  /\ rpc = "idle"
  /\ maxRetries = 0
  /\ attempt = 0
  /\ searches = 0
  /\ failures = <<>>
  /\ rerr = NoError

Init ==
  /\ scenario \in Scenarios
  /\ body = Bytes(scenario)
  /\ NotStarted
  /\ NoCall
  /\ NoWait
  /\ NewAgent
  /\ NoRetry
  /\ NoRequest

\* the first next(): the generator arms the timer and runs up to the await of fetch
Start ==
  /\ pc = "idle"
  /\ pc' = "fetch"
  /\ timerArmed' = TRUE
  /\ UNCHANGED <<inVars, pullReads, status, pos, readerHeld, aborted, err, abortedAt,
                 genVars, timeVars, histVars>>

\* an exception leaves the generator: the finally block clears the timer
Throw(e) ==
  /\ pc' = "error"
  /\ err' = e
  /\ timerArmed' = FALSE

\* the generator returns: the finally block clears the timer
Return ==
  /\ pc' = "done"
  /\ timerArmed' = FALSE

\* const reader = response.body?.getReader()
getReader ==
  /\ readerHeld' = TRUE

\* one more call of reader.read() in this pull
OneMore(reads) == IF reads = "none" THEN "one" ELSE "many"

\* fetch resolves with a response
FetchResolve(st, hasBody) ==
  /\ pc = "fetch"
  /\ ~aborted
  /\ status' = st
  /\ IF st \notin 200..299 THEN
       \* handleError is entered and awaits response.json()
       /\ pc' = "errbody"
       /\ UNCHANGED <<readerHeld, timerArmed, err>>
     ELSE IF ~hasBody THEN
       /\ Throw(PlainError("Error"))
       /\ UNCHANGED readerHeld
     ELSE
       /\ getReader
       /\ pc' = "read"
       /\ UNCHANGED <<timerArmed, err>>
  /\ pullReads' = IF pc' = "read" THEN OneMore(pullReads) ELSE pullReads
  /\ UNCHANGED <<inVars, pos, aborted, abortedAt, genVars, timeVars, histVars>>

\* fetch rejects: network failure, or the abort signal
FetchReject ==
  /\ pc = "fetch"
  /\ Throw(PlainError(IF aborted THEN "AbortError" ELSE "TypeError"))
  /\ UNCHANGED <<inVars, pullReads, status, pos, readerHeld, aborted, abortedAt,
                 genVars, timeVars, histVars>>

\* response.json() of handleError settles; handleError throws
ErrorBody(text, jsonRejects) ==
  /\ pc = "errbody"
  /\ aborted => jsonRejects
  /\ Throw(handleError(status, StatusText(status), text, jsonRejects))
  /\ UNCHANGED <<inVars, pullReads, status, pos, readerHeld, aborted, abortedAt,
                 genVars, timeVars, histVars>>

\* mutant: a chunk is handed over before the chunks that wait
SuspendJumpsQueue(r) ==
  /\ eventName' = r.ev
  /\ dataLines' = r.dl
  /\ frames' = frames \o r.fr
  /\ lines' = r.rest
  /\ parsedDone' = r.done
  /\ IF r.stop = "yield" THEN
       /\ pc' = "yield"
       /\ yieldAt' = "loop"
       /\ out' = <<r.chunk>> \o out
       /\ UNCHANGED timerArmed
     ELSE IF r.stop = "return" THEN
       /\ Return
       /\ yieldAt' = "none"
       /\ UNCHANGED out
     ELSE
       /\ pc' = "read"
       /\ yieldAt' = "none"
       /\ UNCHANGED <<timerArmed, out>>

\* the generator after a run r of the for loop: suspended at the yield,
\* returned, or back at the await of reader.read()
Suspend(r) ==
  /\ eventName' = r.ev
  /\ dataLines' = r.dl
  /\ frames' = frames \o r.fr
  /\ lines' = r.rest
  /\ parsedDone' = r.done
  /\ IF r.stop = "yield" THEN
       /\ pc' = "yield"
       /\ yieldAt' = "loop"
       /\ out' = Append(out, r.chunk)
       /\ UNCHANGED timerArmed
     ELSE IF r.stop = "return" THEN
       /\ Return
       /\ yieldAt' = "none"
       /\ UNCHANGED out
     ELSE
       /\ pc' = "read"
       /\ yieldAt' = "none"
       /\ UNCHANGED <<timerArmed, out>>

\* the for loop runs over ls until it yields, returns or needs the next read
Loop(ls) == Suspend(runLines(ls, eventName, dataLines, <<>>))

\* lines = buffer.split('\n'); buffer = lines.pop() ?? ''; for (... of lines)
Buffered(pieces) ==
  /\ buffer' = Last(pieces)
  /\ Loop(Front(pieces))

\* buffer += decoder.decode(value, { stream: true })
Decoded(dec) ==
  /\ decoder' = dec.d
  /\ Buffered(split(buffer \o dec.text))

\* the done branch after the remainder of the buffer has been taken in:
\* parseEvent of the pending frame, its chunk yielded if there is one
Closing(fr, parsed) ==
  /\ eventName' = fr.eventName
  /\ dataLines' = fr.dataLines
  /\ frames' = Append(frames, Dispatched(fr.eventName, fr.dataLines, parsed))
  /\ parsedDone' = parsed.done
  /\ IF parsed.hasChunk THEN
       /\ pc' = "yield"
       /\ yieldAt' = "tail"
       /\ out' = Append(out, parsed.chunk)
       /\ UNCHANGED timerArmed
     ELSE
       /\ Return
       /\ UNCHANGED <<yieldAt, out>>

\* the done branch: const tail = buffer.trimEnd() and its event: / data: rules
Remainder(fr) == Closing(fr, parseEvent(fr.eventName, fr.dataLines))

ChunkSizes(remaining) == (0..Min(MaxChunk, remaining)) \cup {remaining}

\* reader.read() resolves with the next n bytes of the body
ReadChunk(n) ==
  /\ pc = "read"
  /\ ~aborted
  /\ Decoded(decode(decoder, SubSeq(body, pos + 1, pos + n)))
  /\ pos' = pos + n
  /\ midCut' = (midCut \/ decoder'.needed # 0)
  /\ slow' = (slow \/ gap >= timeout)
  /\ gap' = 0
  /\ pullReads' = IF pc' = "read" THEN OneMore(pullReads) ELSE pullReads
  /\ UNCHANGED <<inVars, status, readerHeld, aborted, err, abortedAt, elapsed, eof, readFailed>>

\* reader.read() resolves with done: the body has ended
ReadDone ==
  /\ pc = "read"
  /\ pos = Len(body)
  /\ eof' = TRUE
  /\ Remainder(tailFrame(buffer, eventName, dataLines))
  /\ UNCHANGED <<inVars, pullReads, status, pos, readerHeld, aborted, err, abortedAt,
                 decoder, buffer, lines, timeVars, readFailed, midCut>>

\* mutant: a rejected read is caught and ends the stream quietly
ReadRejectSwallowed ==
  /\ pc = "read"
  /\ readFailed' = TRUE
  /\ Return
  /\ UNCHANGED <<inVars, pullReads, status, pos, readerHeld, aborted, abortedAt, err,
                 genVars, timeVars, out, frames, eof, midCut>>

\* reader.read() rejects: network failure, or the abort signal
ReadReject ==
  /\ pc = "read"
  /\ readFailed' = TRUE
  /\ Throw(PlainError(IF aborted THEN "AbortError" ELSE "TypeError"))
  /\ UNCHANGED <<inVars, pullReads, status, pos, readerHeld, aborted, abortedAt,
                 genVars, timeVars, out, frames, eof, midCut>>

\* mutant: every next() goes straight to reader.read()
ConsumerNextReadsFirst ==
  /\ pc = "yield"
  /\ IF yieldAt = "tail" \/ parsedDone THEN
       /\ Return
       /\ yieldAt' = "none"
       /\ UNCHANGED <<eventName, dataLines, lines, parsedDone, out, frames>>
     ELSE
       /\ pc' = "read"
       /\ yieldAt' = "none"
       /\ UNCHANGED <<eventName, dataLines, lines, parsedDone, out, frames, timerArmed>>
  /\ pullReads' = IF pc' = "read" THEN "one" ELSE "none"
  /\ UNCHANGED <<inVars, status, pos, readerHeld, aborted, err, abortedAt,
                 decoder, buffer, timeVars, eof, readFailed, midCut>>

\* the consumer asks for the next chunk: the generator resumes after its yield
ConsumerNext ==
  /\ pc = "yield"
  /\ IF yieldAt = "tail" \/ parsedDone THEN
       /\ Return
       /\ yieldAt' = "none"
       /\ UNCHANGED <<eventName, dataLines, lines, parsedDone, out, frames>>
     ELSE Loop(lines)
  /\ pullReads' = IF pc' = "read" THEN "one" ELSE "none"
  /\ UNCHANGED <<inVars, status, pos, readerHeld, aborted, err, abortedAt,
                 decoder, buffer, timeVars, eof, readFailed, midCut>>

\* the consumer stops iterating (break, return() or throw()): the generator
\* is closed at its yield and the finally block runs
ConsumerReturn ==
  /\ pc = "yield"
  /\ pc' = "abandoned"
  /\ timerArmed' = FALSE
  /\ UNCHANGED <<inVars, pullReads, status, pos, readerHeld, aborted, err, abortedAt,
                 genVars, timeVars, histVars>>

\* the clock advances while the generator waits for the network
Tick ==
  /\ pc \in {"fetch", "errbody", "read"}
  /\ elapsed < timeout
  /\ elapsed' = elapsed + 1
  /\ gap' = gap + 1
  /\ UNCHANGED <<inVars, pullReads, pc, status, pos, readerHeld, timerArmed, aborted, err,
                 abortedAt, genVars, slow, histVars>>

\* the callback of setTimeout runs: controller.abort()
TimerFire ==
  /\ timerArmed
  /\ elapsed >= timeout
  /\ timerArmed' = FALSE
  /\ aborted' = TRUE
  /\ abortedAt' = pc
  /\ slow' = (slow \/ gap >= timeout)
  /\ UNCHANGED <<inVars, pullReads, pc, status, pos, readerHeld, err, genVars,
                 elapsed, gap, histVars>>

Next ==
  \/ Start
  \/ \E st \in StatusCodes, hasBody \in BOOLEAN : FetchResolve(st, hasBody)
  \/ FetchReject
  \/ \E text \in ErrorBodies, jsonRejects \in BOOLEAN : ErrorBody(text, jsonRejects)
  \/ \E n \in ChunkSizes(Len(body) - pos) : ReadChunk(n)
  \/ ReadDone
  \/ ReadReject
  \/ ConsumerNext
  \/ ConsumerReturn
  \/ Tick
  \/ TimerFire

Spec == Init /\ [][Next]_vars

\* ------------------------------------------------------------------------
\* Functions called on their own: parseEvent, extractChatSources,
\* toSearchResult and the getters of RagoraError, each on inputs drawn from a
\* catalogue
\* ------------------------------------------------------------------------

\* payloads of a message frame: the three members parseEvent reads
ContentKinds == {"absent", "empty", "Hi", "number", "null"}
FinishKinds == {"absent", "empty", "stop", "null", "number"}
SourcesKinds == {"absent", "none", "one", "notRecords"}

ContentMember(c) ==
  CASE c = "absent" -> <<>>
    [] c = "empty" -> S("\"content\":\"\"")
    [] c = "Hi" -> S("\"content\":\"Hi\"")
    [] c = "number" -> S("\"content\":5")
    [] c = "null" -> S("\"content\":null")

FinishMember(f) ==
  CASE f = "absent" -> <<>>
    [] f = "empty" -> S(",\"finish_reason\":\"\"")
    [] f = "stop" -> S(",\"finish_reason\":\"stop\"")
    [] f = "null" -> S(",\"finish_reason\":null")
    [] f = "number" -> S(",\"finish_reason\":0")

SourcesMember(k) ==
  CASE k = "absent" -> <<>>
    [] k = "none" -> S(",\"sources\":[]")
    [] k = "one" -> S(",\"sources\":[{\"id\":\"a\"}]")
    [] k = "notRecords" -> S(",\"sources\":[1,null,\"s\",[]]")

\* {"choices":[{"delta":{<content>}<finish_reason>}]<sources>}
PayloadText(c, f, k) ==
  S("{\"choices\":[{\"delta\":{") \o ContentMember(c) \o S("}") \o FinishMember(f)
    \o S("}]") \o SourcesMember(k) \o S("}")

\* payloads whose choices are not of the expected shape
OddPayloads ==
  { S("{}"), S("{\"choices\":5}"), S("{\"choices\":[]}"), S("{\"choices\":[7]}"),
    S("{\"choices\":[{\"delta\":\"x\"}]}"), S("{\"choices\":[{\"delta\":[]}]}") }

EventNames == {Message, S("ping"), S("Ragora_Metadata"), S("error")}

ParseEventCalls ==
  { [fn |-> "parseEvent", currentEvent |-> ev, content |-> c, finish |-> f, sources |-> k,
     currentDataLines |-> << PayloadText(c, f, k) >>] :
      ev \in EventNames, c \in ContentKinds, f \in FinishKinds, k \in SourcesKinds }
  \cup
  { [fn |-> "parseEvent", currentEvent |-> ev, content |-> "absent", finish |-> "absent",
     sources |-> "absent", currentDataLines |-> << t >>] :
      ev \in EventNames, t \in OddPayloads }

\* const parsed = parseEvent(eventName, dataLines)
CallParseEvent ==
  /\ input.fn = "parseEvent"
  /\ ~called
  /\ result' = parseEvent(input.currentEvent, input.currentDataLines)
  /\ called' = TRUE
  /\ UNCHANGED <<input, streamVars, waitVars, agentVars, retryVars, reqVars>>

\* payloads for extractChatSources: what ragora_stats is and what the
\* top-level sources member is
StatsKinds ==
  {"absent", "null", "text", "array", "noSources", "list", "emptyList",
   "sourcesNull", "sourcesText", "sourcesRecord"}
TopKinds == {"absent", "list", "text", "record"}

StatsMember(k) ==
  CASE k = "absent" -> <<>>
    [] k = "null" -> S("\"ragora_stats\":null")
    [] k = "text" -> S("\"ragora_stats\":\"x\"")
    [] k = "array" -> S("\"ragora_stats\":[{\"id\":\"z\"}]")
    [] k = "noSources" -> S("\"ragora_stats\":{\"n\":1}")
    [] k = "list" ->
         S("\"ragora_stats\":{\"sources\":[{\"id\":\"a\"},null,[{\"id\":\"n\"}],\"s\",3,{\"chunk_id\":\"b\"}]}")
    [] k = "emptyList" -> S("\"ragora_stats\":{\"sources\":[]}")
    [] k = "sourcesNull" -> S("\"ragora_stats\":{\"sources\":null}")
    [] k = "sourcesText" -> S("\"ragora_stats\":{\"sources\":\"x\"}")
    [] k = "sourcesRecord" -> S("\"ragora_stats\":{\"sources\":{\"id\":\"r\"}}")

TopMember(k) ==
  CASE k = "absent" -> <<>>
    [] k = "list" -> S("\"sources\":[{\"id\":\"t\"},7,{\"id\":\"u\"}]")
    [] k = "text" -> S("\"sources\":\"x\"")
    [] k = "record" -> S("\"sources\":{\"id\":\"r\"}")

\* members joined by commas, absent ones left out
RECURSIVE Members(_)
Members(ms) ==
  IF ms = <<>> THEN <<>>
  ELSE IF ms[1] = <<>> THEN Members(Tail(ms))
  ELSE IF Members(Tail(ms)) = <<>> THEN ms[1]
  ELSE ms[1] \o <<44>> \o Members(Tail(ms))

ObjectText(ms) == <<123>> \o Members(ms) \o <<125>>

ExtractCalls ==
  { [fn |-> "extractChatSources", stats |-> k, top |-> t, first |-> o,
     payload |-> JSONparse(ObjectText(IF o = "stats" THEN << StatsMember(k), TopMember(t) >>
                                      ELSE << TopMember(t), StatsMember(k) >>)).v] :
      k \in StatsKinds, t \in TopKinds, o \in {"stats", "top"} }

\* const sources = this.extractChatSources(parsed)
CallExtractChatSources ==
  /\ input.fn = "extractChatSources"
  /\ ~called
  /\ result' = extractChatSources(input.payload)
  /\ called' = TRUE
  /\ UNCHANGED <<input, streamVars, waitVars, agentVars, retryVars, reqVars>>

\* untyped records for toSearchResult: the score member, the text and
\* content members, and the remaining members
ScoreKinds ==
  {"absent", "null", "half", "negative", "zero", "numeral", "padded", "word", "blank",
   "infinity", "minusInfinity", "nan", "record", "emptyArray", "array", "true", "false"}
RawTextKinds == {"absent", "text", "number", "null"}
RawContentKinds == {"absent", "text", "empty", "number", "null"}
OtherKinds == {"bare", "full", "numbers", "nulls", "chunk", "odd"}

ScoreMember(k) ==
  CASE k = "absent" -> <<>>
    [] k = "null" -> S("\"score\":null")
    [] k = "half" -> S("\"score\":0.5")
    [] k = "negative" -> S("\"score\":-2")
    [] k = "zero" -> S("\"score\":0")
    [] k = "numeral" -> S("\"score\":\"0.7\"")
    [] k = "padded" -> S("\"score\":\" 3 \"")
    [] k = "word" -> S("\"score\":\"abc\"")
    [] k = "blank" -> S("\"score\":\"\"")
    [] k = "infinity" -> S("\"score\":\"Infinity\"")
    [] k = "minusInfinity" -> S("\"score\":\"-Infinity\"")
    [] k = "nan" -> S("\"score\":\"NaN\"")
    [] k = "record" -> S("\"score\":{\"v\":1}")
    [] k = "emptyArray" -> S("\"score\":[]")
    [] k = "array" -> S("\"score\":[5]")
    [] k = "true" -> S("\"score\":true")
    [] k = "false" -> S("\"score\":false")

RawTextMember(k) ==
  CASE k = "absent" -> <<>>
    [] k = "text" -> S("\"text\":\"t\"")
    [] k = "number" -> S("\"text\":5")
    [] k = "null" -> S("\"text\":null")

RawContentMember(k) ==
  CASE k = "absent" -> <<>>
    [] k = "text" -> S("\"content\":\"c\"")
    [] k = "empty" -> S("\"content\":\"\"")
    [] k = "number" -> S("\"content\":7")
    [] k = "null" -> S("\"content\":null")

OtherMember(k) ==
  CASE k = "bare" -> <<>>
    [] k = "full" ->
         S("\"id\":\"a\",\"metadata\":{\"k\":1},\"document_id\":\"d\",\"collection_id\":\"c\"")
    [] k = "numbers" -> S("\"id\":12,\"metadata\":[1],\"document_id\":4")
    [] k = "nulls" -> S("\"id\":null,\"chunk_id\":\"k\",\"metadata\":null")
    [] k = "chunk" -> S("\"chunk_id\":7,\"metadata\":\"m\"")
    [] k = "odd" -> S("\"id\":{\"x\":1},\"metadata\":{}")

CoerceCalls ==
  { [fn |-> "toSearchResult", score |-> sc, text |-> t, content |-> c, other |-> o,
     raw |-> JSONparse(ObjectText(<< OtherMember(o), RawContentMember(c), ScoreMember(sc),
                                     RawTextMember(t) >>)).v] :
      sc \in ScoreKinds, t \in RawTextKinds, c \in RawContentKinds, o \in OtherKinds }

\* results.push(this.toSearchResult(raw))
CallToSearchResult ==
  /\ input.fn = "toSearchResult"
  /\ ~called
  /\ result' = toSearchResult(input.raw)
  /\ called' = TRUE
  /\ UNCHANGED <<input, streamVars, waitVars, agentVars, retryVars, reqVars>>

\* the getters of RagoraError
isRateLimited(e) == e.statusCode = 429
isAuthError(e) == e.statusCode = 401 \/ e.statusCode = 403
\* mutant: only the server errors are retryable
isRetryableServerOnly(e) == e.statusCode \in {500, 502, 503, 504}
isRetryable(e) == e.statusCode \in {429, 500, 502, 503, 504}

\* status codes of the errors the getters are read on
ErrorCodes == 100..599

GetterCalls ==
  { [fn |-> "getters", error |-> RagoraError(<<>>, code, FALSE)] : code \in ErrorCodes }

\* error.isRateLimited, error.isAuthError, error.isRetryable
CallGetters ==
  /\ input.fn = "getters"
  /\ ~called
  /\ result' = [isRateLimited |-> isRateLimited(input.error),
                isAuthError |-> isAuthError(input.error),
                isRetryable |-> isRetryable(input.error)]
  /\ called' = TRUE
  /\ UNCHANGED <<input, streamVars, waitVars, agentVars, retryVars, reqVars>>

\* the payloads of the catalogue of lines
P_a == S("{\"choices\":[{\"delta\":{\"content\":\"a\"}}]}")
P_src == S("{\"sources\":[{\"id\":\"a\"}]}")
P_half1 == S("{\"choices\":")
P_half2 == S("[{\"finish_reason\":\"stop\"}]}")

\* a body: complete lines, each followed by the line end, and an unterminated rest
Body(ls, rest) == [ls |-> ls, rest |-> rest]

\* the catalogue of bodies, by name: E event lines, D data lines, O other
\* lines, W lines with white space at their end (9 is the tab)
LineLib(id) ==
  CASE id = "E1" -> Body(<< S("event:   ping  "), S("data: ") \o P_a, <<>> >>, <<>>)
    [] id = "E2" -> Body(<< S("event:"), S("data: ") \o P_a, <<>> >>, <<>>)
    [] id = "E3" -> Body(<< S("event: ragora_metadata"), S("event:  "), S("data: ") \o P_src, <<>> >>, <<>>)
    [] id = "E4" -> Body(<< S("data: ") \o P_a, S("event: ping"), S("event: ragora_complete"), <<>> >>, <<>>)
    [] id = "E5" -> Body(<< S("data: ") \o P_a, <<>> >>, <<>>)
    [] id = "E6" -> Body(<< S("event: ping"), <<>>, S("data: ") \o P_a, <<>> >>, <<>>)
    [] id = "E7" -> Body(<< S("Event: ping"), S(" event: ragora_metadata"), S("data: ") \o P_src, <<>> >>, <<>>)
    [] id = "E8" -> Body(<< S("data: ") \o P_src >>, S("event: ragora_metadata "))
    [] id = "E9" -> Body(<< S("event: ragora_metadata"), S("data: ") \o P_src >>, S("event:"))
    [] id = "E10" -> Body(<< S("event: ping"), <<9>>, S("data: ") \o P_a, <<>> >>, <<>>)
    [] id = "D1" -> Body(<< S("data:") \o P_a, <<>> >>, <<>>)
    [] id = "D2" -> Body(<< S("data: ") \o <<9, 32>> \o P_a, <<>> >>, <<>>)
    [] id = "D3" -> Body(<< S("data: ") \o P_half1, S("data:  ") \o P_half2, <<>> >>, <<>>)
    [] id = "D4" -> Body(<< S("data: [DONE]"), S("data: ") \o P_a, <<>>, S("data: ") \o P_a, <<>> >>, <<>>)
    [] id = "D5" -> Body(<< S("data: [DONE]"), <<>>, S("data: ") \o P_a, <<>> >>, <<>>)
    [] id = "D6" -> Body(<< S("data:"), S("data: [DONE]"), <<>>, S("data: ") \o P_a, <<>> >>, <<>>)
    [] id = "D7" -> Body(<<>>, S("data: ") \o P_a)
    [] id = "D8" -> Body(<< S("data: ") \o P_half1 >>, S("data: ") \o P_half2)
    [] id = "W1" -> Body(<< S("data: [DONE] "), <<>>, S("data: ") \o P_a, <<>> >>, <<>>)
    [] id = "W2" -> Body(<< S("data: ") \o P_a \o S("  "), <<>> >>, <<>>)
    [] id = "W3" -> Body(<< S("data: ") \o P_half1, S(" "), S("data: ") \o P_half2, <<>> >>, <<>>)
    [] id = "W4" -> Body(<< S("data: ") \o P_a \o <<CR, CR>>, <<CR>> >>, <<>>)
    [] id = "O1" -> Body(<< S(": comment"), S("id: 7"), S("data: ") \o P_a, S("retry: 100"),
                            S("foo"), S("data"), <<>> >>, <<>>)
    [] id = "O2" -> Body(<< S("event: ragora_metadata"), S(":"), S("data: ") \o P_src,
                            S("event"), <<>> >>, S("id"))

EventBodies == {"E1", "E2", "E3", "E4", "E5", "E6", "E7", "E8", "E9", "E10"}
DataBodies == {"D1", "D2", "D3", "D4", "D5", "D6", "D7", "D8"}
SpaceBodies == {"W1", "W2", "W3", "W4"}
OtherBodies == {"O1", "O2"}

\* the text on the wire
BodyOf(b, eol) == LinesText(b.ls, eol) \o b.rest

LineCalls ==
  { [fn |-> "chatStream", id |-> id, eol |-> eol] :
      id \in EventBodies \cup DataBodies \cup SpaceBodies \cup OtherBodies, eol \in Eols }

\* a consumer that takes every chunk: the for loop is resumed after every
\* yield until it returns or runs out of lines
RECURSIVE Drain(_, _, _, _, _)
Drained(r, fr, o) ==
  IF r.stop = "yield" /\ ~r.done
  THEN Drain(r.rest, r.ev, r.dl, fr \o r.fr, Append(o, r.chunk))
  ELSE [returned |-> r.stop # "more", ev |-> r.ev, dl |-> r.dl, frames |-> fr \o r.fr,
        out |-> IF r.stop = "yield" THEN Append(o, r.chunk) ELSE o]

Drain(ls, ev, dl, fr, o) == Drained(runLines(ls, ev, dl, <<>>), fr, o)

\* the run after the done branch: what was dispatched and yielded in all, and
\* buffer, eventName and dataLines as the for loop left them
Finished(d, last, fr, parsed) ==
  [frames |-> Append(d.frames, Dispatched(fr.eventName, fr.dataLines, parsed)),
   out |-> IF parsed.hasChunk THEN Append(d.out, parsed.chunk) ELSE d.out,
   returned |-> FALSE, buffer |-> last, eventName |-> d.ev, dataLines |-> d.dl]

AtEnd(d, last, fr) == Finished(d, last, fr, parseEvent(fr.eventName, fr.dataLines))

AfterLoop(d, last) ==
  IF d.returned
  THEN [frames |-> d.frames, out |-> d.out, returned |-> TRUE,
        buffer |-> last, eventName |-> d.ev, dataLines |-> d.dl]
  ELSE AtEnd(d, last, tailFrame(last, d.ev, d.dl))

linesRun(pieces) == AfterLoop(Drain(Front(pieces), Message, <<>>, <<>>, <<>>), Last(pieces))

\* chatStream on a body that arrives in one read, pulled to its end
readWhole(text) == linesRun(split(text))

\* for await (const chunk of client.chatStream(request)) on a body of the catalogue
CallChatStream ==
  /\ input.fn = "chatStream"
  /\ ~called
  /\ result' = readWhole(BodyOf(LineLib(input.id), input.eol))
  /\ called' = TRUE
  /\ UNCHANGED <<input, streamVars, waitVars, agentVars, retryVars, reqVars>>

CallInit ==
  /\ input \in ParseEventCalls \cup ExtractCalls \cup CoerceCalls \cup GetterCalls \cup LineCalls
  /\ result = <<>>
  /\ called = FALSE
  /\ NoStream
  /\ NoWait
  /\ NewAgent
  /\ NoRetry
  /\ NoRequest

CallNext ==
  \/ CallParseEvent
  \/ CallExtractChatSources
  \/ CallToSearchResult
  \/ CallGetters
  \/ CallChatStream

CallSpec == CallInit /\ [][CallNext]_vars

\* ------------------------------------------------------------------------
\* waitForDocument: poll getDocumentStatus until the document is processed
\* ------------------------------------------------------------------------

\* the options of one call; times are in ms
WaitOptions(hasTimeout, t, hasPollInterval, p) ==
  [hasTimeout |-> hasTimeout, timeout |-> t, hasPollInterval |-> hasPollInterval, pollInterval |-> p]

DefaultTimeout == 300000
DefaultPollInterval == 2000

\* the clock is read in steps of ClockStep ms
ClockStep == 2000
\* the status requests counted
MaxPolls == 3

TimeoutOptions == {0, 1000, 2500}
PollIntervalOptions == {0, 1000, 2000}

WaitCalls ==
  {WaitOptions(TRUE, t, TRUE, p) : t \in TimeoutOptions, p \in PollIntervalOptions}
  \cup {WaitOptions(FALSE, 0, TRUE, p) : p \in PollIntervalOptions}
  \cup {WaitOptions(TRUE, t, FALSE, 0) : t \in TimeoutOptions}
  \cup {WaitOptions(FALSE, 0, FALSE, 0)}

\* what getDocumentStatus resolves with: data.status ?? 'unknown', data.progress_stage
PollResults ==
  { DocumentStatus("pending", JUndef),
    DocumentStatus("processing", JStr(S("embedding"))),
    DocumentStatus("unknown", JUndef),
    DocumentStatus("completed", JStr(S("done"))),
    DocumentStatus("completed", JUndef),
    DocumentStatus("failed", JStr(S("ocr"))),
    DocumentStatus("failed", JUndef) }

\* the status codes getDocumentStatus rejects with
PollErrors == {404, 500}

\* options?.timeout ?? 300000; options?.pollInterval ?? 2000; startTime = Date.now();
\* the loop is entered and the first status request is made
WaitForDocument(options) ==
  /\ wpc = "idle"
  /\ waitTimeout' = IF options.hasTimeout THEN options.timeout ELSE DefaultTimeout
  /\ pollInterval' = IF options.hasPollInterval THEN options.pollInterval ELSE DefaultPollInterval
  /\ now' = 0
  /\ polls' = 1
  /\ wpc' = "poll"
  /\ UNCHANGED <<slept, lastStatus, lateAtPoll, wres, werr>>

\* the error of a document whose processing failed
FailedError(st) ==
  RagoraError(S("Document processing failed: ")
                \o Coalesce(st.progressStage, JStr(S("unknown error"))).v,
              500, FALSE)

TimeoutError == RagoraError(S("Timeout waiting for document doc1 to process"), 408, FALSE)

\* a poll that treats 'failed' like any status still in progress
PollResolveFailedGoesOn(st) ==
  /\ wpc = "poll"
  /\ lastStatus' = st
  /\ lateAtPoll' = (now >= waitTimeout)
  /\ IF st.status = "completed"
       THEN wpc' = "returned" /\ wres' = st /\ UNCHANGED <<werr, slept>>
     ELSE IF now >= waitTimeout
       THEN wpc' = "thrown" /\ werr' = TimeoutError /\ UNCHANGED <<wres, slept>>
     ELSE wpc' = "sleep" /\ slept' = 0 /\ UNCHANGED <<wres, werr>>
  /\ UNCHANGED <<waitTimeout, pollInterval, now, polls>>

\* a poll that looks at the elapsed time before it looks at the status
PollResolveTimeoutFirst(st) ==
  /\ wpc = "poll"
  /\ lastStatus' = st
  /\ lateAtPoll' = (now >= waitTimeout)
  /\ IF now >= waitTimeout
       THEN wpc' = "thrown" /\ werr' = TimeoutError /\ UNCHANGED <<wres, slept>>
     ELSE IF st.status = "completed"
       THEN wpc' = "returned" /\ wres' = st /\ UNCHANGED <<werr, slept>>
     ELSE IF st.status = "failed"
       THEN wpc' = "thrown" /\ werr' = FailedError(st) /\ UNCHANGED <<wres, slept>>
     ELSE wpc' = "sleep" /\ slept' = 0 /\ UNCHANGED <<wres, werr>>
  /\ UNCHANGED <<waitTimeout, pollInterval, now, polls>>

\* await this.getDocumentStatus(documentId) resolves: return, throw, or
\* setTimeout(resolve, pollInterval)
PollResolve(st) ==
  /\ wpc = "poll"
  /\ lastStatus' = st
  /\ lateAtPoll' = (now >= waitTimeout)
  /\ IF st.status = "completed"
       THEN wpc' = "returned" /\ wres' = st /\ UNCHANGED <<werr, slept>>
     ELSE IF st.status = "failed"
       THEN wpc' = "thrown" /\ werr' = FailedError(st) /\ UNCHANGED <<wres, slept>>
     ELSE IF now >= waitTimeout
       THEN wpc' = "thrown" /\ werr' = TimeoutError /\ UNCHANGED <<wres, slept>>
     ELSE wpc' = "sleep" /\ slept' = 0 /\ UNCHANGED <<wres, werr>>
  /\ UNCHANGED <<waitTimeout, pollInterval, now, polls>>

\* await this.getDocumentStatus(documentId) rejects: the error leaves waitForDocument
PollReject(code) ==
  /\ wpc = "poll"
  /\ wpc' = "thrown"
  /\ werr' = RagoraError(S("Request failed"), code, TRUE)
  /\ UNCHANGED <<waitTimeout, pollInterval, now, slept, lastStatus, lateAtPoll, polls, wres>>

\* the timer fires after pollInterval ms: the loop goes round and the next
\* status request is made
SleepEnd ==
  /\ wpc = "sleep"
  /\ slept >= pollInterval
  /\ wpc' = "poll"
  /\ polls' = Min(polls + 1, MaxPolls)
  /\ UNCHANGED <<waitTimeout, pollInterval, now, slept, lastStatus, lateAtPoll, wres, werr>>

\* Date.now() advances while a request or the timer is pending
WaitTick ==
  /\ wpc \in {"poll", "sleep"}
  /\ now < waitTimeout \/ (wpc = "sleep" /\ slept < pollInterval)
  /\ now' = Min(now + ClockStep, waitTimeout)
  /\ slept' = IF wpc = "sleep" THEN Min(slept + ClockStep, pollInterval) ELSE slept
  /\ UNCHANGED <<wpc, waitTimeout, pollInterval, lastStatus, lateAtPoll, polls, wres, werr>>

WaitInit ==
  /\ NoStream
  /\ NoCall
  /\ NoWait
  /\ NewAgent
  /\ NoRetry
  /\ NoRequest

WaitNext ==
  \/ \E options \in WaitCalls : WaitForDocument(options) /\ UNCHANGED <<streamVars, callVars, agentVars, retryVars, reqVars>>
  \/ \E st \in PollResults : PollResolve(st) /\ UNCHANGED <<streamVars, callVars, agentVars, retryVars, reqVars>>
  \/ \E code \in PollErrors : PollReject(code) /\ UNCHANGED <<streamVars, callVars, agentVars, retryVars, reqVars>>
  \/ SleepEnd /\ UNCHANGED <<streamVars, callVars, agentVars, retryVars, reqVars>>
  \/ WaitTick /\ UNCHANGED <<streamVars, callVars, agentVars, retryVars, reqVars>>

\* polls return, timers fire and the clock advances
WaitFair ==
  /\ WF_vars(\E st \in PollResults : PollResolve(st) /\ UNCHANGED <<streamVars, callVars, agentVars, retryVars, reqVars>>)
  /\ WF_vars(SleepEnd /\ UNCHANGED <<streamVars, callVars, agentVars, retryVars, reqVars>>)
  /\ WF_vars(WaitTick /\ UNCHANGED <<streamVars, callVars, agentVars, retryVars, reqVars>>)

WaitSpec == WaitInit /\ [][WaitNext]_vars /\ WaitFair

\* ------------------------------------------------------------------------
\* AgenticRAGAgent: the session id kept across calls
\* ------------------------------------------------------------------------

\* the sessionId of a response or a chunk; "" is an absent or empty one
ServerSessionIds == {"", "s1", "s2"}

\* a call that has read this.sessionId and may still write it
InFlight(op) == op.pc \in {"await", "pull", "yield"}

Others(i) == {j \in Slots : j # i /\ InFlight(ops[j])}

\* this.sessionId = sid, by the call in slot i (0: newSession)
WriteSessionId(i, sid) ==
  /\ sessionId' = sid
  /\ wroteDuring' = (wroteDuring \/ Others(i) # {})

\* chat(message) up to its await: agentChat is called with this.sessionId
ChatCall(i) ==
  /\ ops[i] = Free
  /\ ops' = [ops EXCEPT ![i] = [kind |-> "chat", pc |-> "await", sent |-> sessionId]]
  /\ UNCHANGED <<sessionId, wroteDuring>>

\* agentChat resolves: if (response.sessionId) this.sessionId = response.sessionId
ChatResolve(i, sid) ==
  /\ ops[i].kind = "chat"
  /\ ops[i].pc = "await"
  /\ IF sid # "" THEN WriteSessionId(i, sid) ELSE UNCHANGED <<sessionId, wroteDuring>>
  /\ ops' = [ops EXCEPT ![i] = Free]

\* agentChat rejects: chat throws before the assignment
ChatReject(i) ==
  /\ ops[i].kind = "chat"
  /\ ops[i].pc = "await"
  /\ ops' = [ops EXCEPT ![i] = Free]
  /\ UNCHANGED <<sessionId, wroteDuring>>

\* chatStream(message): the generator object is created, its body has not run
StreamCall(i) ==
  /\ ops[i] = Free
  /\ ops' = [ops EXCEPT ![i] = [kind |-> "stream", pc |-> "created", sent |-> "undefined"]]
  /\ UNCHANGED <<sessionId, wroteDuring>>

\* next() on the generator: the first one calls agentChatStream with
\* this.sessionId, every one waits for the next chunk of the stream
StreamNext(i) ==
  /\ ops[i].kind = "stream"
  /\ ops[i].pc \in {"created", "yield"}
  /\ ops' = [ops EXCEPT ![i] = [kind |-> "stream", pc |-> "pull",
                                sent |-> IF ops[i].pc = "created" THEN sessionId ELSE ops[i].sent]]
  /\ UNCHANGED <<sessionId, wroteDuring>>

\* a chunk arrives: if (chunk.sessionId) this.sessionId = chunk.sessionId; yield
StreamChunk(i, sid) ==
  /\ ops[i].kind = "stream"
  /\ ops[i].pc = "pull"
  /\ IF sid # "" THEN WriteSessionId(i, sid) ELSE UNCHANGED <<sessionId, wroteDuring>>
  /\ ops' = [ops EXCEPT ![i].pc = "yield"]

\* the stream ends or throws: the for await loop is left
StreamEnd(i) ==
  /\ ops[i].kind = "stream"
  /\ ops[i].pc = "pull"
  /\ ops' = [ops EXCEPT ![i] = Free]
  /\ UNCHANGED <<sessionId, wroteDuring>>

\* return() on the generator: the consumer leaves its loop
StreamReturn(i) ==
  /\ ops[i].kind = "stream"
  /\ ops[i].pc \in {"created", "yield"}
  /\ ops' = [ops EXCEPT ![i] = Free]
  /\ UNCHANGED <<sessionId, wroteDuring>>

\* newSession(): this.sessionId = undefined
NewSession ==
  /\ WriteSessionId(0, "undefined")
  /\ UNCHANGED ops

AgentInit ==
  /\ NoStream
  /\ NoCall
  /\ NoWait
  /\ NewAgent
  /\ NoRetry
  /\ NoRequest

AgentNext ==
  \/ \E i \in Slots : ChatCall(i) /\ UNCHANGED <<streamVars, callVars, waitVars, retryVars, reqVars>>
  \/ \E i \in Slots, sid \in ServerSessionIds :
       ChatResolve(i, sid) /\ UNCHANGED <<streamVars, callVars, waitVars, retryVars, reqVars>>
  \/ \E i \in Slots : ChatReject(i) /\ UNCHANGED <<streamVars, callVars, waitVars, retryVars, reqVars>>
  \/ \E i \in Slots : StreamCall(i) /\ UNCHANGED <<streamVars, callVars, waitVars, retryVars, reqVars>>
  \/ \E i \in Slots : StreamNext(i) /\ UNCHANGED <<streamVars, callVars, waitVars, retryVars, reqVars>>
  \/ \E i \in Slots, sid \in ServerSessionIds :
       StreamChunk(i, sid) /\ UNCHANGED <<streamVars, callVars, waitVars, retryVars, reqVars>>
  \/ \E i \in Slots : StreamEnd(i) /\ UNCHANGED <<streamVars, callVars, waitVars, retryVars, reqVars>>
  \/ \E i \in Slots : StreamReturn(i) /\ UNCHANGED <<streamVars, callVars, waitVars, retryVars, reqVars>>
  \/ NewSession /\ UNCHANGED <<streamVars, callVars, waitVars, retryVars, reqVars>>

AgentSpec == AgentInit /\ [][AgentNext]_vars

\* ------------------------------------------------------------------------
\* searchWithRetry: client.search retried on transient errors
\* ------------------------------------------------------------------------

\* the largest maxRetries a call is made with
MaxRetries == 3

\* what an attempt fails with: a RagoraError by its status code, or another error
SearchErrors ==
  {RagoraError(S("e"), code, TRUE) : code \in {400, 401, 403, 429, 500, 503}}
  \cup {PlainError("TypeError")}

\* searchWithRetry(client, collectionId, query, n): the for loop is entered
\* and, if attempt < maxRetries, client.search is called
SearchWithRetry(n) ==
  /\ rpc = "idle"
  /\ maxRetries' = n
  /\ attempt' = 0
  /\ IF 0 < n
       THEN rpc' = "search" /\ searches' = searches + 1 /\ UNCHANGED rerr
       ELSE rpc' = "thrown" /\ rerr' = PlainError("Error") /\ UNCHANGED searches
  /\ UNCHANGED failures

\* return await client.search(...)
SearchResolve ==
  /\ rpc = "search"
  /\ rpc' = "returned"
  /\ UNCHANGED <<maxRetries, attempt, searches, failures, rerr>>

\* attempt++ and the test of the for loop: the next call of client.search,
\* or throw new Error('Max retries exceeded')
NextAttempt ==
  /\ attempt' = attempt + 1
  /\ IF attempt + 1 < maxRetries
       THEN rpc' = "search" /\ searches' = searches + 1 /\ UNCHANGED rerr
       ELSE rpc' = "thrown" /\ rerr' = PlainError("Error") /\ UNCHANGED searches

\* mutant: every RagoraError is retried
SearchRejectRetriesAll(error) ==
  /\ rpc = "search"
  /\ failures' = Append(failures, error)
  /\ IF error.kind # "RagoraError"
       THEN rpc' = "thrown" /\ rerr' = error /\ UNCHANGED <<attempt, searches>>
     ELSE IF attempt < maxRetries - 1
       THEN rpc' = "backoff" /\ UNCHANGED <<attempt, searches, rerr>>
     ELSE NextAttempt
  /\ UNCHANGED maxRetries

\* the catch block: rethrow, or wait before the next attempt
SearchReject(error) ==
  /\ rpc = "search"
  /\ failures' = Append(failures, error)
  /\ IF error.kind # "RagoraError" \/ isAuthError(error) \/ ~isRetryable(error)
       THEN rpc' = "thrown" /\ rerr' = error /\ UNCHANGED <<attempt, searches>>
     ELSE IF attempt < maxRetries - 1
       THEN rpc' = "backoff" /\ UNCHANGED <<attempt, searches, rerr>>
     ELSE NextAttempt
  /\ UNCHANGED maxRetries

\* the timer of await new Promise((resolve) => setTimeout(resolve, waitTime)) fires
BackoffEnd ==
  /\ rpc = "backoff"
  /\ NextAttempt
  /\ UNCHANGED <<maxRetries, failures>>

RetryInit ==
  /\ NoStream
  /\ NoCall
  /\ NoWait
  /\ NewAgent
  /\ NoRetry
  /\ NoRequest

RetryNext ==
  \/ \E n \in 0..MaxRetries : SearchWithRetry(n) /\ UNCHANGED <<streamVars, callVars, waitVars, agentVars, reqVars>>
  \/ SearchResolve /\ UNCHANGED <<streamVars, callVars, waitVars, agentVars, reqVars>>
  \/ \E error \in SearchErrors : SearchReject(error) /\ UNCHANGED <<streamVars, callVars, waitVars, agentVars, reqVars>>
  \/ BackoffEnd /\ UNCHANGED <<streamVars, callVars, waitVars, agentVars, reqVars>>

\* attempts settle and timers fire
RetryFair ==
  /\ WF_vars((SearchResolve \/ \E error \in SearchErrors : SearchReject(error))
               /\ UNCHANGED <<streamVars, callVars, waitVars, agentVars, reqVars>>)
  /\ WF_vars(BackoffEnd /\ UNCHANGED <<streamVars, callVars, waitVars, agentVars, reqVars>>)

RetrySpec == RetryInit /\ [][RetryNext]_vars /\ RetryFair

\* ------------------------------------------------------------------------
\* request and uploadDocument: one fetch under an abort timer
\* ------------------------------------------------------------------------

RequestKinds == {"request", "uploadDocument"}

\* const timeoutId = setTimeout(() => controller.abort(), this.timeout), and
\* the call runs up to the await of fetch
Request(kind) ==
  /\ rq = "idle"
  /\ rkind' = kind
  /\ rq' = "fetch"
  /\ rtimer' = TRUE
  /\ UNCHANGED raborted

\* mutant: the finally block leaves the timer pending
finallyKeepsTimer ==
  /\ UNCHANGED rtimer

\* finally { clearTimeout(timeoutId) }
finally ==
  /\ rtimer' = FALSE

\* fetch resolves: handleError is entered if !response.ok, else response.json()
RequestFetchResolve(ok) ==
  /\ rq = "fetch"
  /\ ~raborted
  /\ rq' = IF ok THEN "json" ELSE "errbody"
  /\ UNCHANGED <<rkind, rtimer, raborted>>

\* fetch rejects: network failure, or the abort signal
RequestFetchReject ==
  /\ rq = "fetch"
  /\ rq' = "thrown"
  /\ finally
  /\ UNCHANGED <<rkind, raborted>>

\* response.json() of handleError settles; handleError throws
RequestErrorBody ==
  /\ rq = "errbody"
  /\ rq' = "thrown"
  /\ finally
  /\ UNCHANGED <<rkind, raborted>>

\* response.json() resolves: request returns { data, metadata }; uploadDocument
\* reads data.id, which throws if data is null
RequestJsonResolve(isObject) ==
  /\ rq = "json"
  /\ ~raborted
  /\ rq' = IF rkind = "uploadDocument" /\ ~isObject THEN "thrown" ELSE "returned"
  /\ finally
  /\ UNCHANGED <<rkind, raborted>>

\* response.json() rejects: the body is no JSON, or the abort signal
RequestJsonReject ==
  /\ rq = "json"
  /\ rq' = "thrown"
  /\ finally
  /\ UNCHANGED <<rkind, raborted>>

\* the callback of setTimeout runs: controller.abort()
RequestTimerFire ==
  /\ rtimer
  /\ rtimer' = FALSE
  /\ raborted' = TRUE
  /\ UNCHANGED <<rkind, rq>>

\* one operation under an abort timer: a chatStream on one of the response
\* bodies, or a call of request or uploadDocument
TimerInit == Init

TimerNext ==
  \/ rq = "idle" /\ Start
  \/ \E st \in StatusCodes, hasBody \in BOOLEAN : FetchResolve(st, hasBody)
  \/ FetchReject
  \/ \E text \in ErrorBodies, jsonRejects \in BOOLEAN : ErrorBody(text, jsonRejects)
  \/ \E n \in ChunkSizes(Len(body) - pos) : ReadChunk(n)
  \/ ReadDone
  \/ ReadReject
  \/ ConsumerNext
  \/ ConsumerReturn
  \/ Tick
  \/ TimerFire
  \/ \E kind \in RequestKinds : pc = "idle" /\ Request(kind) /\ UNCHANGED <<streamVars, callVars, waitVars, agentVars, retryVars>>
  \/ \E ok \in BOOLEAN : RequestFetchResolve(ok) /\ UNCHANGED <<streamVars, callVars, waitVars, agentVars, retryVars>>
  \/ RequestFetchReject /\ UNCHANGED <<streamVars, callVars, waitVars, agentVars, retryVars>>
  \/ RequestErrorBody /\ UNCHANGED <<streamVars, callVars, waitVars, agentVars, retryVars>>
  \/ \E isObject \in BOOLEAN : RequestJsonResolve(isObject) /\ UNCHANGED <<streamVars, callVars, waitVars, agentVars, retryVars>>
  \/ RequestJsonReject /\ UNCHANGED <<streamVars, callVars, waitVars, agentVars, retryVars>>
  \/ RequestTimerFire /\ UNCHANGED <<streamVars, callVars, waitVars, agentVars, retryVars>>

TimerSpec == TimerInit /\ [][TimerNext]_vars

\* ------------------------------------------------------------------------
\* Reference: the stream read in one piece by a consumer that pulls to the end
\* ------------------------------------------------------------------------

\* frames and chunks of a body that arrives as a single chunk
WholeRun(bytes) ==
  LET pieces == split(decode(NewDecoder, bytes).text)
      d == Drain(Front(pieces), Message, <<>>, <<>>, <<>>)
      fr == tailFrame(Last(pieces), d.ev, d.dl)
      parsed == parseEvent(fr.eventName, fr.dataLines)
  IN IF d.returned THEN [frames |-> d.frames, out |-> d.out]
     ELSE [frames |-> Append(d.frames, Dispatched(fr.eventName, fr.dataLines, parsed)),
           out |-> IF parsed.hasChunk THEN Append(d.out, parsed.chunk) ELSE d.out]

IsPrefix(a, b) == Len(a) <= Len(b) /\ SubSeq(b, 1, Len(a)) = a

Payload(f) == join(f.dataLines)
IsDoneFrame(f) == Len(f.dataLines) > 0 /\ Payload(f) = DoneSentinel
DoneDispatched == \E i \in 1..Len(frames) : IsDoneFrame(frames[i])
Ended == pc \in {"done", "error", "abandoned"}

\* C1: however the body is cut into transport chunks, the frames handed to
\* parseEvent and the chunks yielded are those of the body read as one chunk:
\* a prefix of them at any time, all of them once the stream has completed.
C1_ChunkSplitInvariance ==
  LET whole == WholeRun(body) IN
  /\ IsPrefix(frames, whole.frames)
  /\ IsPrefix(out, whole.out)
  /\ pc = "done" => frames = whole.frames /\ out = whole.out

\* a completed stream of two frames, CRLF line ends, that was cut inside a
\* multi-byte character
C1_Witness ==
  /\ pc = "done"
  /\ midCut
  /\ Len(out) >= 1
  /\ Len(frames) >= 2

\* C2: once a frame whose joined payload is [DONE] has been dispatched the
\* generator has returned: that frame is the last one interpreted and nothing
\* is yielded for it, whatever was received or is still to come.
C2_DoneEndsStream ==
  \A i \in 1..Len(frames) :
    IsDoneFrame(frames[i]) =>
      /\ pc = "done"
      /\ i = Len(frames)
      /\ ~frames[i].hasChunk
      /\ out = WholeRun(body).out

\* [DONE] was dispatched while lines of a later frame, received in the same
\* read, were still waiting
C2_Witness ==
  /\ DoneDispatched
  /\ lines # <<>>
  /\ Len(WholeRun(body).frames) < Len(scenario.ids)

\* frames of the library whose payload JSON.parse rejects, or parses to a
\* value that is not an object
MalformedIds == {4, 5}

RECURSIVE Without(_, _)
Without(ids, bad) ==
  IF ids = <<>> THEN <<>>
  ELSE IF ids[1] \in bad THEN Without(Tail(ids), bad)
  ELSE <<ids[1]>> \o Without(Tail(ids), bad)

HasMalformed(sc) == \E i \in 1..Len(sc.ids) : sc.ids[i] \in MalformedIds

\* the scenario with its malformed frames taken out
Cleaned(sc) ==
  Sc(Without(sc.ids, MalformedIds), sc.eol,
     IF Last(sc.ids) \in MalformedIds THEN "closed" ELSE sc.ending)

\* C3: a frame whose payload is not JSON, or not a JSON object, yields no
\* chunk and raises nothing; a stream read to its end yields exactly the
\* chunks of the same stream without the malformed frames.
C3_MalformedFrameSkipped ==
  /\ \A i \in 1..Len(frames) :
       LET p == JSONparse(Payload(frames[i])) IN
       (Len(frames[i].dataLines) > 0 /\ ~IsDoneFrame(frames[i]) /\ (~p.ok \/ ~isRecord(p.v)))
         => ~frames[i].hasChunk
  /\ pc = "error" => err.kind \in {"TypeError", "AbortError", "Error", "RagoraError"} /\ (readFailed \/ pos = 0)
  /\ (HasMalformed(scenario) /\ pc = "done") => out = WholeRun(Bytes(Cleaned(scenario))).out

\* a stream with a malformed frame before a well-formed one was read to the
\* end and the well-formed frame yielded its chunk
C3_Witness ==
  /\ HasMalformed(scenario)
  /\ pc = "done"
  /\ eof
  /\ Len(out) >= 1
  /\ \E i \in 1..Len(frames) : Len(frames[i].dataLines) > 0 /\ ~JSONparse(Payload(frames[i])).ok

\* C4: when the body ends inside a frame (no final blank line, possibly an
\* unterminated last line) the remainder is interpreted by the event:/data:
\* rules and the stream yields what it yields when that frame is terminated.
C4_TailFrameYielded ==
  (scenario.ending # "closed" /\ eof) =>
    LET closed == WholeRun(Bytes(Sc(scenario.ids, scenario.eol, "closed"))) IN
    /\ out = closed.out
    /\ pc \in {"yield", "done", "abandoned"}
    /\ pc = "yield" => yieldAt = "tail"

\* the body ended inside its last line and the pending frame gave a chunk
C4_Witness ==
  /\ scenario.ending = "noEol"
  /\ eof
  /\ pc = "yield"
  /\ yieldAt = "tail"
  /\ buffer # <<>>
  /\ Last(frames).hasChunk

\* C5 (as claimed): in no ended state of a stream is the reader still held.
C5_ReaderReleasedOnExit == Ended => ~readerHeld

\* C6 (as claimed): the timer aborts a started stream only after a wait for a
\* chunk that lasted the timeout or longer.
C6_TimerResetOnChunk == abortedAt \in {"read", "yield"} => slow

\* C7: the generator returns only after a [DONE] frame or the end of the body.
C7_EndsOnlyByDoneOrEof == pc = "done" => (DoneDispatched \/ eof)

\* malformed and empty frames and an unknown event name went by and the
\* stream ended by the end of the body
C7_Witness ==
  /\ pc = "done"
  /\ eof
  /\ ~DoneDispatched
  /\ \E i \in 1..Len(frames) : Len(frames[i].dataLines) > 0 /\ ~JSONparse(Payload(frames[i])).ok

\* C8: when reader.read() rejects, the consumer gets the error: the generator
\* has thrown, has not returned, and has yielded nothing since.
C8_ReadFailurePropagates ==
  readFailed =>
    /\ pc = "error"
    /\ err.kind \in {"TypeError", "AbortError"}
    /\ IsPrefix(out, WholeRun(body).out)
    /\ ~eof

\* a read failed after a chunk had been yielded
C8_Witness ==
  /\ readFailed
  /\ Len(out) >= 1
  /\ err.kind = "AbortError"

\* C9: a response that is not ok never opens the stream: whatever its body,
\* a RagoraError with the status of the response is thrown, the reader is
\* not acquired and nothing is yielded.
C9_NotOkRejected ==
  (status # 0 /\ status \notin 200..299) =>
    /\ pc \in {"errbody", "error"}
    /\ ~readerHeld
    /\ out = <<>>
    /\ frames = <<>>
    /\ pc = "error" => err.kind = "RagoraError" /\ err.statusCode = status

\* a 429 whose body was not JSON has been rejected
C9_Witness ==
  /\ status = 429
  /\ pc = "error"
  /\ err.kind = "RagoraError"
  /\ ~err.api
  /\ err.message = S("HTTP 429")

RECURSIVE Emitted(_)
Emitted(fs) ==
  IF fs = <<>> THEN <<>>
  ELSE (IF fs[1].hasChunk THEN <<fs[1].chunk>> ELSE <<>>) \o Emitted(Tail(fs))

IsSourcesEvent(f) == f.eventName = EvMetadata \/ f.eventName = EvComplete

\* C10: a ragora_metadata or ragora_complete frame whose payload is a JSON
\* object yields one chunk with empty content, no finishReason and the
\* extracted sources when these are not empty, and nothing otherwise.
C10_SourcesEventChunk ==
  /\ out = Emitted(frames)
  /\ \A i \in 1..Len(frames) :
       LET p == JSONparse(Payload(frames[i])) IN
       (IsSourcesEvent(frames[i]) /\ Len(frames[i].dataLines) > 0 /\ p.ok /\ isRecord(p.v)) =>
         IF Len(extractChatSources(p.v)) > 0
         THEN /\ frames[i].hasChunk
              /\ frames[i].chunk = [content |-> <<>>, finishReason |-> JUndef,
                                    sources |-> extractChatSources(p.v)]
         ELSE ~frames[i].hasChunk

\* both cases happened in one stream: a completion event without sources gave
\* nothing, a completion event with sources and a content delta gave its chunk
C10_Witness ==
  /\ Len(frames) >= 2
  /\ IsSourcesEvent(frames[1]) /\ ~frames[1].hasChunk /\ Len(frames[1].dataLines) > 0
  /\ IsSourcesEvent(frames[2]) /\ frames[2].hasChunk
  /\ Len(out) = 1
  /\ out[1].content = <<>>
  /\ Len(out[1].sources) = 1

\* ------------------------------------------------------------------------
\* Claims about the functions called on their own
\* ------------------------------------------------------------------------

\* the ids of a list of search results
Ids(rs) == [i \in 1..Len(rs) |-> rs[i].id]

\* what the catalogue of message payloads carries, written down by hand
ExpectedContent(c) == IF c = "Hi" THEN S("Hi") ELSE <<>>
ExpectedFinish(f) ==
  IF f = "stop" THEN JStr(S("stop")) ELSE IF f = "empty" THEN JStr(<<>>) ELSE JUndef
ExpectedSourceIds(k) == IF k = "one" THEN << S("a") >> ELSE <<>>

ParseEventReturned == called /\ input.fn = "parseEvent"

\* the chunk parseEvent returned is {content, finishReason, sources} of the payload
ChunkAsExpected ==
  /\ result.hasChunk
  /\ result.chunk.content = ExpectedContent(input.content)
  /\ result.chunk.finishReason = ExpectedFinish(input.finish)
  /\ Ids(result.chunk.sources) = ExpectedSourceIds(input.sources)

\* C11 (as claimed): for a message frame whose payload is a JSON object nothing
\* is emitted iff content is empty, finishReason is undefined and sources is
\* empty; otherwise the chunk {content, finishReason, sources} is emitted.
C11_ContentChunkAsClaimed ==
  ParseEventReturned =>
    IF /\ ExpectedContent(input.content) = <<>>
       /\ ExpectedFinish(input.finish) = JUndef
       /\ ExpectedSourceIds(input.sources) = <<>>
    THEN ~result.hasChunk
    ELSE ChunkAsExpected

\* C11 (amended): nothing is emitted iff content is empty, finishReason is
\* undefined or the empty string, and sources is empty; otherwise the chunk
\* {content, finishReason, sources} is emitted; the frame never ends the stream.
C11_ContentChunk ==
  ParseEventReturned =>
    /\ ~result.done
    /\ IF /\ ExpectedContent(input.content) = <<>>
          /\ ExpectedFinish(input.finish) \in {JUndef, JStr(<<>>)}
          /\ ExpectedSourceIds(input.sources) = <<>>
       THEN ~result.hasChunk
       ELSE ChunkAsExpected

\* a payload with finish_reason "" and nothing else gave no chunk, under an
\* event name that is not a sources event
C11_Witness ==
  /\ ParseEventReturned
  /\ input.finish = "empty"
  /\ input.content = "number"
  /\ input.sources = "notRecords"
  /\ input.currentEvent # Message
  /\ ~result.hasChunk

\* what the catalogue of payloads with sources carries, written down by hand
ExpectedStatsIds(k) == IF k = "list" THEN << S("a"), S("b") >> ELSE <<>>
ExpectedTopIds(t) == IF t = "list" THEN << S("t"), S("u") >> ELSE <<>>

ExpectedScore(k) ==
  CASE k = "half" -> Fin(5, 1)
    [] k = "negative" -> Fin(0 - 2, 0)
    [] k = "numeral" -> Fin(7, 1)
    [] k = "padded" -> Fin(3, 0)
    [] k = "array" -> Fin(5, 0)
    [] k = "true" -> Fin(1, 0)
    [] OTHER -> Fin(0, 0)

ExpectedId(o) ==
  CASE o = "bare" -> <<>>
    [] o = "full" -> S("a")
    [] o = "numbers" -> S("12")
    [] o = "nulls" -> S("k")
    [] o = "chunk" -> S("7")
    [] o = "odd" -> S("[object Object]")

\* raw scores that are absent, that are no number (Number() gives NaN), NaN or
\* an infinity
ZeroScoreKinds ==
  {"absent", "null", "word", "record", "nan", "infinity", "minusInfinity"}

CoerceReturned == called /\ input.fn = "toSearchResult"

C14_DefaultsAsClaimed ==
  CoerceReturned =>
    /\ input.score = "absent" => result.score = Fin(0, 0)
    /\ input.content = "absent" => result.content = <<>>

\* C14 (amended): without a score member the score is 0; without a content
\* member the content is the text member when that is a string and ""
\* otherwise, whatever else the record carries.
C14_Defaults ==
  CoerceReturned =>
    /\ input.score = "absent" => result.score = Fin(0, 0)
    /\ input.content = "absent" =>
         result.content = IF input.text = "text" THEN S("t") ELSE <<>>

\* a record with neither score nor content, with a text member and all other
\* members, was coerced
C14_Witness ==
  /\ CoerceReturned
  /\ input.score = "absent"
  /\ input.content = "absent"
  /\ input.text = "text"
  /\ input.other = "full"
  /\ result.content = S("t")
  /\ result.score = Fin(0, 0)

\* C17: isRateLimited iff the status code is 429, isAuthError iff it is 401
\* or 403, isRetryable iff it is 429, 500, 502, 503 or 504; so a rate-limit
\* error is retryable and an authentication error is not.
C17_ErrorGetters ==
  (called /\ input.fn = "getters") =>
    /\ result.isRateLimited <=> input.error.statusCode = 429
    /\ result.isAuthError <=> input.error.statusCode \in {401, 403}
    /\ result.isRetryable <=> input.error.statusCode \in {429, 500, 502, 503, 504}
    /\ result.isRateLimited => result.isRetryable
    /\ result.isAuthError => ~result.isRetryable

\* the getters were read on a 429
C17_Witness ==
  /\ called
  /\ input.fn = "getters"
  /\ input.error.statusCode = 429
  /\ result.isRateLimited
  /\ result.isRetryable
  /\ ~result.isAuthError

\* ------------------------------------------------------------------------
\* Claims about the order of chunks and the isolation of frames
\* ------------------------------------------------------------------------

\* C19: at most one chunk per frame, in the order of the frames: the chunks
\* yielded are the chunks of the frames dispatched so far, in that order; a
\* chunk is yielded right after its frame, before any later frame is
\* dispatched; a step adds at most one chunk, at the end.
C19_ChunksInFrameOrder ==
  /\ [](/\ out = Emitted(frames)
        /\ pc = "yield" => /\ frames # <<>>
                           /\ Last(frames).hasChunk
                           /\ Last(out) = Last(frames).chunk)
  /\ [][/\ IsPrefix(out, out')
        /\ Len(out') <= Len(out) + 1
        /\ IsPrefix(frames, frames')
        /\ Len(out') > Len(out) => pc' = "yield"]_vars

\* two different chunks were yielded, with a frame that gave nothing between
\* their frames
C19_Witness ==
  /\ pc = "done"
  /\ Len(out) = 2
  /\ out[1] # out[2]
  /\ Len(frames) >= 3
  /\ frames[1].hasChunk
  /\ ~frames[2].hasChunk
  /\ frames[3].hasChunk

\* the event name a block of lines sets: that of its last event: line
RECURSIVE BlockEvent(_, _)
BlockEvent(ls, ev) ==
  IF ls = <<>> THEN ev
  ELSE IF startsWith(ls[1], EventPrefix)
    THEN BlockEvent(Tail(ls), OrMessage(trim(slice(ls[1], 6))))
  ELSE BlockEvent(Tail(ls), ev)

\* the payloads of the data: lines of a block of lines
RECURSIVE BlockData(_)
BlockData(ls) ==
  IF ls = <<>> THEN <<>>
  ELSE IF startsWith(ls[1], EventPrefix) \/ ~startsWith(ls[1], DataPrefix)
    THEN BlockData(Tail(ls))
  ELSE << trimStart(slice(ls[1], 5)) >> \o BlockData(Tail(ls))

\* C20: the i-th frame dispatched carries the event name and the data lines
\* of the i-th block of lines of the body and of no other block (a dispatch
\* after the last block carries "message" and no data lines); after the
\* dispatch at a blank line the event name is "message" and the data lines
\* are empty, whether or not the frame gave a chunk.
C20_FrameIsolation ==
  /\ \A i \in 1..Len(frames) :
       IF i <= Len(scenario.ids)
       THEN /\ frames[i].eventName = BlockEvent(FrameLib[scenario.ids[i]], Message)
            /\ frames[i].dataLines = BlockData(FrameLib[scenario.ids[i]])
       ELSE /\ frames[i].eventName = Message
            /\ frames[i].dataLines = <<>>
  /\ (pc = "yield" /\ yieldAt = "loop") => (eventName = Message /\ dataLines = <<>>)
  /\ (pc = "done" /\ ~eof) => (eventName = Message /\ dataLines = <<>>)
  /\ (pc = "read" /\ buffer = <<>> /\ pos = Len(body) /\ scenario.ending = "closed")
       => (eventName = Message /\ dataLines = <<>>)

\* a frame with an event name and no data lines gave nothing, and the frame
\* after it was a message frame that gave its chunk
C20_Witness ==
  /\ Len(frames) >= 2
  /\ frames[1].eventName = S("ping")
  /\ frames[1].dataLines = <<>>
  /\ ~frames[1].hasChunk
  /\ frames[2].eventName = Message
  /\ frames[2].hasChunk
  /\ pc = "yield"

\* ------------------------------------------------------------------------
\* Claims about waitForDocument
\* ------------------------------------------------------------------------

WaitEnded == wpc \in {"returned", "thrown"}

\* the message of the error for a failed document, written down by hand
ExpectedFailedMessage(st) ==
  IF st.progressStage = JUndef
  THEN S("Document processing failed: unknown error")
  ELSE S("Document processing failed: ocr")

\* C15: waitForDocument returns a value only when a poll reports 'completed'
\* and the value is that poll's result; it throws a RagoraError with
\* statusCode 500 as soon as a poll reports 'failed'; after either it makes
\* no further status request.
C15_WaitEnds ==
  /\ [](wpc = "returned" => lastStatus.status = "completed" /\ wres = lastStatus)
  /\ [](lastStatus.status = "failed" =>
          /\ wpc = "thrown"
          /\ werr.kind = "RagoraError"
          /\ werr.statusCode = 500
          /\ werr.message = ExpectedFailedMessage(lastStatus))
  /\ [][WaitEnded => wpc' = wpc /\ polls' = polls /\ wres' = wres /\ werr' = werr]_vars

\* a call that returned the status of its third poll after two polls and two sleeps
C15_Witness ==
  /\ wpc = "returned"
  /\ polls = 3
  /\ wres.status = "completed"
  /\ now > 0

\* a status still in progress
InProgress(st) == st.status \notin {"completed", "failed", "none"}

\* C16: with polls that never report 'completed' or 'failed' the call throws
\* a RagoraError with statusCode 408 at the first poll that returns when the
\* elapsed time is >= timeout, so a call ends whenever polls return and the
\* clock advances; the elapsed time is looked at only after a poll, so one
\* status request is always made, and 'completed' or 'failed' win over the
\* timeout.
C16_WaitTimesOut ==
  /\ [](wpc = "thrown" /\ werr.statusCode = 408 =>
          lateAtPoll /\ InProgress(lastStatus) /\ now >= waitTimeout)
  /\ [](lateAtPoll /\ InProgress(lastStatus) =>
          wpc = "thrown" /\ werr.kind = "RagoraError" /\ werr.statusCode = 408)
  /\ [](wpc = "sleep" => ~lateAtPoll /\ InProgress(lastStatus))
  /\ [](WaitEnded => polls >= 1)
  /\ [](lastStatus.status = "completed" => wpc = "returned")
  /\ [](lastStatus.status = "failed" => wpc = "thrown" /\ werr.statusCode = 500)
  /\ (wpc # "idle" ~> WaitEnded)

\* a call with a timeout above zero that gave up after its second poll
C16_Witness ==
  /\ wpc = "thrown"
  /\ werr.statusCode = 408
  /\ waitTimeout > 0
  /\ polls = 2
  /\ InProgress(lastStatus)

\* ------------------------------------------------------------------------
\* Claims about AgenticRAGAgent
\* ------------------------------------------------------------------------

\* the calls that may still write sessionId
Writers == {i \in Slots : InFlight(ops[i])}

\* C18: sessionId has a single writer: no interleaving of chat, chatStream
\* and newSession has two writers of sessionId active at the same time, and
\* sessionId is never written while another writer is active.
C18_SingleWriter ==
  /\ Cardinality(Writers) <= 1
  /\ ~wroteDuring

\* ------------------------------------------------------------------------
\* Claims about reads and pulls
\* ------------------------------------------------------------------------

\* a step in which reader.read() is called
ReadIssued == pc' = "read" /\ (pc # "read" \/ pos' # pos \/ pullReads' # pullReads)

\* C21 as stated: no pull of the consumer triggers more than one read.
C21_OneReadPerPull == pullReads # "many"

\* C21: a pull triggers reads one at a time until a chunk can be yielded or
\* the stream ends: a read is awaited only in a pull that issued it, a step
\* that issues a read yields nothing and leaves no complete line waiting, and
\* a step that yields a chunk hands control back without issuing a read.
C21_ReadsUntilChunk ==
  /\ [](pc = "read" => pullReads # "none")
  /\ [][ReadIssued => lines' = <<>> /\ out' = out]_vars
  /\ [][out' # out => pc' = "yield" /\ pullReads' \in {pullReads, "none"}]_vars

\* a chunk was yielded in a pull that needed more than one read
C21_Witness ==
  /\ pc = "yield"
  /\ pullReads = "many"
  /\ Len(out) >= 1

\* the frames and chunks that the bytes received so far give
Received ==
  LET pieces == split(decode(NewDecoder, SubSeq(body, 1, pos)).text)
  IN Drain(Front(pieces), Message, <<>>, <<>>, <<>>)

HasLF(txt) == \E i \in 1..Len(txt) : txt[i] = LF

\* C22: when a read is awaited no complete line of an earlier read is left:
\* the pending lines are empty, the buffer holds no newline, and every frame
\* completed by the bytes received so far has been interpreted and its chunk
\* yielded, in order.
C22_DrainBeforeRead ==
  pc = "read" =>
    /\ lines = <<>>
    /\ ~HasLF(buffer)
    /\ frames = Received.frames
    /\ out = Received.out

\* a second chunk was yielded from the lines of an earlier read, with no
\* read in between, and then the next read was awaited
C22_Witness ==
  /\ pc = "read"
  /\ Len(out) = 2
  /\ Len(frames) = 3
  /\ pos = Len(body)
  /\ pullReads = "one"
  /\ ~eof

\* ------------------------------------------------------------------------
\* Claims about the lines of a frame
\* ------------------------------------------------------------------------

LinesRead == called /\ input.fn = "chatStream"

Ping == S("ping")

\* event name and number of data lines of every frame dispatched for a body
\* of the catalogue, written down by hand; the last entry of a body that
\* ends after a blank line is the dispatch at the end of the stream
ExpectedEvents(id) ==
  CASE id = "E1" -> << <<Ping, 1>>, <<Message, 0>> >>
    [] id = "E2" -> << <<Message, 1>>, <<Message, 0>> >>
    [] id = "E3" -> << <<Message, 1>>, <<Message, 0>> >>
    [] id = "E4" -> << <<EvComplete, 1>>, <<Message, 0>> >>
    [] id = "E5" -> << <<Message, 1>>, <<Message, 0>> >>
    [] id = "E6" -> << <<Ping, 0>>, <<Message, 1>>, <<Message, 0>> >>
    [] id = "E7" -> << <<Message, 1>>, <<Message, 0>> >>
    [] id = "E8" -> << <<EvMetadata, 1>> >>
    [] id = "E9" -> << <<Message, 1>> >>
    [] id = "E10" -> << <<Ping, 0>>, <<Message, 1>>, <<Message, 0>> >>

EventsOf(fs) == [i \in 1..Len(fs) |-> <<fs[i].eventName, Len(fs[i].dataLines)>>]

\* C23: an event: line sets the event name to its trimmed remainder, or to
\* "message" when that is empty, and adds no data line; a frame is dispatched
\* with the name of its last event: line, before or after its data lines, and
\* with "message" when it has none.
C23_EventLine ==
  (LinesRead /\ input.id \in EventBodies) =>
    EventsOf(result.frames) = ExpectedEvents(input.id)

\* the frame with two event: lines after its data line was dispatched under
\* the name of the last one and so gave no chunk
C23_Witness ==
  /\ LinesRead
  /\ input.id = "E4"
  /\ result.frames[1].eventName = EvComplete
  /\ Len(result.frames[1].dataLines) = 1
  /\ result.out = <<>>

\* the data lines of every frame of a body as the claims have them: the text
\* after data: without its leading white space, nothing else removed
ClaimedData(id) ==
  CASE id = "D1" -> << <<P_a>>, <<>> >>
    [] id = "D2" -> << <<P_a>>, <<>> >>
    [] id = "D3" -> << <<P_half1, P_half2>>, <<>> >>
    [] id = "D4" -> << <<S("[DONE]"), P_a>>, <<P_a>>, <<>> >>
    [] id = "D5" -> << <<S("[DONE]")>> >>
    [] id = "D6" -> << << <<>>, S("[DONE]")>>, <<P_a>>, <<>> >>
    [] id = "D7" -> << <<P_a>> >>
    [] id = "D8" -> << <<P_half1, P_half2>> >>
    [] id = "W1" -> << <<S("[DONE] ")>>, <<P_a>>, <<>> >>
    [] id = "W2" -> << <<P_a \o S("  ")>>, <<>> >>
    [] id = "W3" -> << <<P_half1, P_half2>>, <<>> >>
    [] id = "W4" -> << <<P_a>>, <<>> >>

\* the bodies whose stream ends at the sentinel
ClaimedSentinel == {"D5"}

DataOf(fs) == [i \in 1..Len(fs) |-> fs[i].dataLines]

\* C24: a data: line appends its remainder, with only the leading white
\* space removed, to the data lines of the frame; the payload is these
\* joined by a newline in order of arrival, and only the payload that is
\* exactly [DONE] is the sentinel.
C24_DataLinesAsClaimed ==
  (LinesRead /\ input.id \in DataBodies \cup {"W1", "W2"}) =>
    /\ DataOf(result.frames) = ClaimedData(input.id)
    /\ result.returned = (input.id \in ClaimedSentinel)

\* C25: the buffer is split at the newline, the last element stays in the
\* buffer, and each line loses exactly its trailing carriage returns, so a
\* line ends a frame only if nothing else is in it, and a body with CRLF
\* line ends gives what the same body with LF line ends gives.
C25_LinesAsClaimed ==
  /\ (LinesRead /\ input.eol = "CRLF") =>
       result = readWhole(BodyOf(LineLib(input.id), "LF"))
  /\ (LinesRead /\ input.id \in SpaceBodies) =>
       /\ DataOf(result.frames) = ClaimedData(input.id)
       /\ result.returned = FALSE

\* a line without its trailing carriage returns
RECURSIVE StripCR(_)
StripCR(line) ==
  IF line # <<>> /\ line[Len(line)] = CR THEN StripCR(SubSeq(line, 1, Len(line) - 1)) ELSE line

\* a complete line that is not empty and starts with neither event: nor data:
IsOtherLine(line) ==
  /\ StripCR(line) # <<>>
  /\ ~startsWith(line, EventPrefix)
  /\ ~startsWith(line, DataPrefix)

RECURSIVE WithoutOther(_)
WithoutOther(ls) ==
  IF ls = <<>> THEN <<>>
  ELSE IF IsOtherLine(ls[1]) THEN WithoutOther(Tail(ls))
  ELSE <<ls[1]>> \o WithoutOther(Tail(ls))

HasOther(ls) == \E i \in 1..Len(ls) : IsOtherLine(ls[i])

\* C26: a complete line that is not empty and starts with neither event: nor
\* data: changes nothing: the frames dispatched, the chunks yielded, the
\* event name, the data lines and the buffer are those of the body without
\* that line.
C26_OtherLinesIgnored ==
  (LinesRead /\ HasOther(LineLib(input.id).ls)) =>
    result = readWhole(BodyOf(Body(WithoutOther(LineLib(input.id).ls), LineLib(input.id).rest),
                              input.eol))

\* ------------------------------------------------------------------------
\* Claims about event names and about what a chunk carries
\* ------------------------------------------------------------------------

\* C27: a frame under any event name other than ragora_metadata and
\* ragora_complete gives what the same payload gives under "message": the
\* same content/finishReason chunk with the sources of the payload, or
\* nothing; the name never ends the stream and never leaves out the content.
C27_UnknownEventAsMessage ==
  (ParseEventReturned /\ input.currentEvent \notin {EvMetadata, EvComplete}) =>
    /\ result = parseEvent(Message, input.currentDataLines)
    /\ ~result.done
    /\ ExpectedContent(input.content) # <<>> =>
         /\ result.hasChunk
         /\ result.chunk.content = ExpectedContent(input.content)
         /\ Ids(result.chunk.sources) = ExpectedSourceIds(input.sources)

\* a frame named Ragora_Metadata with a content delta, a finish reason and a
\* source gave the chunk with all three
C27_Witness ==
  /\ ParseEventReturned
  /\ input.currentEvent = S("Ragora_Metadata")
  /\ input.content = "Hi"
  /\ input.finish = "stop"
  /\ input.sources = "one"
  /\ result.hasChunk
  /\ result.chunk.content = S("Hi")
  /\ result.chunk.finishReason = JStr(S("stop"))
  /\ Len(result.chunk.sources) = 1

\* a chunk with a content, a finish reason or a source
Carries(c) ==
  \/ c.content # <<>>
  \/ (c.finishReason.t = "str" /\ c.finishReason.v # <<>>)
  \/ Len(c.sources) > 0

\* C29: every chunk yielded by chatStream, at a blank line, for a sources
\* event or at the end of the stream, has a non-empty content, a non-empty
\* finishReason or a non-empty list of sources.
C29_ChunkCarries == \A i \in 1..Len(out) : Carries(out[i])

\* a sources event without its blank line gave, at the end of the stream, a
\* chunk that carries its source and nothing else
C29_Witness ==
  /\ pc = "yield"
  /\ yieldAt = "tail"
  /\ Len(out) = 1
  /\ out[1].content = <<>>
  /\ out[1].finishReason = JUndef
  /\ Len(out[1].sources) = 1


\* ------------------------------------------------------------------------
\* C28: searchWithRetry
\* ------------------------------------------------------------------------

\* an error after which another attempt may be made
MayRetry(e) == e.kind = "RagoraError" /\ isRetryable(e) /\ ~isAuthError(e)

RetryEnded == rpc \in {"returned", "thrown"}

LastFailure == failures[Len(failures)]

\* C28: searchWithRetry calls client.search at most maxRetries times; an
\* attempt after the first is made only after a failure with a retryable
\* RagoraError that is no authentication error; any other error is rethrown
\* at once with no further attempt; the first success is returned with no
\* further attempt; and after maxRetries retryable failures the function
\* throws: every call ends.
C28_SearchWithRetry ==
  /\ [](searches <= maxRetries)
  /\ [][searches' # searches /\ searches > 0 =>
          /\ searches' = searches + 1
          /\ Len(failures') = searches
          /\ MayRetry(failures'[Len(failures')])]_vars
  /\ [][failures' # failures =>
          /\ rpc = "search"
          /\ Len(failures') = searches
          /\ ~MayRetry(failures'[Len(failures')]) =>
               /\ rpc' = "thrown"
               /\ rerr' = failures'[Len(failures')]
               /\ searches' = searches]_vars
  /\ [](rpc = "returned" => /\ Len(failures) = searches - 1
                            /\ \A i \in 1..Len(failures) : MayRetry(failures[i]))
  /\ [][RetryEnded => UNCHANGED retryVars]_vars
  /\ [](/\ rpc # "idle"
        /\ Len(failures) = maxRetries
        /\ (maxRetries > 0 => MayRetry(LastFailure))
        => rpc = "thrown" /\ rerr = PlainError("Error") /\ searches = maxRetries)
  /\ (rpc # "idle" ~> RetryEnded)

\* the last of three attempts failed with a retryable error, after a wait
\* that followed a rate limit
C28_Witness ==
  /\ rpc = "thrown"
  /\ maxRetries = 3
  /\ searches = 3
  /\ Len(failures) = 3
  /\ \A i \in 1..3 : MayRetry(failures[i])
  /\ isRateLimited(failures[1])
  /\ rerr = PlainError("Error")


\* ------------------------------------------------------------------------
\* C30: the abort timer
\* ------------------------------------------------------------------------

Running == pc \notin {"idle", "done", "error", "abandoned"}

RequestRunning == rq \in {"fetch", "errbody", "json"}

RequestEnded == rq \in {"returned", "thrown"}

\* C30: the abort timer is armed when chatStream, request or uploadDocument
\* starts and stays pending, unless it fires, while the operation runs; once the
\* operation has ended (completion, [DONE], a thrown error, the consumer
\* closing the iteration) the timer is not pending, and the controller is not
\* aborted afterwards.
C30_TimerCleared ==
  /\ [](Running => timerArmed \/ aborted)
  /\ [](RequestRunning => rtimer \/ raborted)
  /\ [](Ended => ~timerArmed)
  /\ [](RequestEnded => ~rtimer)
  /\ [][Ended => aborted' = aborted /\ timerArmed' = timerArmed]_vars
  /\ [][RequestEnded => raborted' = raborted /\ rtimer' = rtimer]_vars

\* the consumer closed the iteration after the first chunk, at a time when
\* the timer was due and had not fired
C30_Witness ==
  /\ pc = "abandoned"
  /\ Len(out) = 1
  /\ elapsed >= timeout
  /\ ~aborted
  /\ ~timerArmed

====
